---- MODULE Spec2Model ----
(***************************************************************************)
(* Caster's Tool: the IndexedDB event cache (frontend/js/cache.js) and the *)
(* UI controller (docs/js/app.js) as state machines.                       *)
(*                                                                         *)
(* Every async function is cut at its awaits: one action per segment that  *)
(* the JavaScript event loop runs without interruption.                    *)
(***************************************************************************)
EXTENDS Integers, Sequences, FiniteSets, TLC

(***************************************************************************)
(* Bounds                                                                  *)
(***************************************************************************)
\* EventCache calls that may be in flight at the same time
MaxOps == 2

\* async functions of app.js that may be suspended at the same time
MaxCalls == 2

(***************************************************************************)
(* Values                                                                  *)
(***************************************************************************)
\* JavaScript null / undefined; a present value v is carried as <<v>>
Null == <<>>

Some(v) == <<v>>

\* event keys: <<year, eventCode>>, the string `${year}${eventCode}`
EventKeys == {<<2024, "aa">>, <<2026, "bb">>}

\* the fields of a snapshot (saveCurrentEvent's object literal)
Tabs == {"info", "teams", "summary", "matches", "playoffs", "alliances",
         "connections", "connections_alltime"}

\* the snapshot with every field null
EmptyData == [t \in Tabs |-> Null]

\* snapshots handed to EventCache.put by a direct caller
CacheSnapshots ==
    { [EmptyData EXCEPT !["info"] = Some("i1"), !["teams"] = Some("t1")],
      [EmptyData EXCEPT !["info"] = Some("i2"), !["teams"] = Some("t2")] }

\* tab names handed to EventCache.patchTab by a direct caller, and the value
\* each is patched with
PatchTabs == {"info", "teams"}

PatchVal(tab) == IF tab = "info" THEN Some("i2") ELSE Some("t2")

OpIds == 1..MaxOps

\* how one round trip to IndexedDB ends: open() and the transaction succeed,
\* open() fails (req.onerror), or the request / transaction fails
Outcomes == {"ok", "openFail", "txFail"}

VARIABLES
    storeCreated,   \* the object store 'events' exists (onupgradeneeded ran)
    db,             \* the records of object store 'events'
    ops,            \* EventCache calls in flight, by slot
    resolved,       \* the EventCache promise settled last: call and value
    lastPut         \* history: per key, the data of the last committed write

VARIABLES
    currentEvent,         \* event key once loaded
    currentEventYear,     \* numeric year of the loaded event
    currentEventStatus,   \* 'ongoing' | 'completed' | null
    eventRegion,          \* resolved region name for the loaded event
    selectedEvent,        \* localStorage entry 'selectedEvent'
    eventInfoData,        \* cached event info for saving
    teamsData,            \* cached teams list
    summaryData,          \* cached event summary
    pbpData,              \* cached play-by-play data
    bdData,               \* cached breakdown match list
    playoffData,          \* cached playoff matches
    allianceData,         \* cached alliance data
    pbpIndex,             \* current match index
    bdIndex,              \* current breakdown match index
    bdShared,             \* bdData and pbpData name the same object
    compareSelection,     \* team keys ticked in the rankings table
    renderedTabs,         \* which lazily rendered tabs are up to date
    activeTab,            \* the tab whose content has class 'active'
    bdPollTimer,          \* the variable holds an interval id
    bdListTimer,          \* the variable holds an interval id
    rankingsRefreshTimer, \* the variable holds an interval id
    intervals,            \* running setInterval timers, by callback
    loadBtn,              \* #btn-load-event: disabled, text, dataset.origText, btn-loading
    seasonBusy,           \* season search 'input-loading' / loading button shown
    dotLoading,           \* banner dot has class 'aeb-dot-loading'
    saveLabel,            \* #save-event-label text
    bracketView,          \* content of #playoff-bracket
    calls,                \* async functions of app.js suspended at an await
    effects,              \* what the last step sent to the backend and alerted
    pbpConnections,       \* #pbp-connections: the match whose connections are rendered
    bdContent,            \* #bd-content: the match whose breakdown is rendered
    lastLoad,             \* history: the event key of the loadEvent call started last
    saved                 \* history: per key, the state saveCurrentEvent last stored

cacheVars == <<storeCreated, db, ops, resolved, lastPut>>

eventVars == <<currentEvent, currentEventYear, currentEventStatus, eventRegion, selectedEvent>>

dataVars == <<eventInfoData, teamsData, summaryData, pbpData, bdData, playoffData, allianceData>>

navVars == <<pbpIndex, bdIndex, bdShared, renderedTabs, activeTab, compareSelection>>

timerVars == <<bdPollTimer, bdListTimer, rankingsRefreshTimer, intervals>>

uiVars == <<loadBtn, seasonBusy, dotLoading, saveLabel, bracketView>>

panelVars == <<pbpConnections, bdContent, lastLoad>>

appVars == <<eventVars, dataVars, navVars, timerVars, uiVars, calls, effects, saved, panelVars>>

vars == <<cacheVars, appVars>>

(***************************************************************************)
(* cache.js: the object store                                              *)
(***************************************************************************)
\* objectStore.get(eventKey): req.result || null
StoreGet(store, k) ==
    IF \E r \in store : r.event_key = k
    THEN Some(CHOOSE r \in store : r.event_key = k)
    ELSE Null

\* a put that adds the record without replacing the one stored under its key
MutStorePut(store, k, d) == store \cup {[event_key |-> k, data |-> d]}

\* objectStore.put(record) on a store with keyPath 'event_key'
StorePut(store, k, d) ==
    {r \in store : r.event_key # k} \cup {[event_key |-> k, data |-> d]}

\* objectStore.delete(eventKey)
StoreDelete(store, k) == {r \in store : r.event_key # k}

\* what a call settles with
BoolResult(b) == [kind |-> "bool",   b |-> b,     rec |-> Null, keys |-> {}]
RecResult(r)  == [kind |-> "rec",    b |-> FALSE, rec |-> r,    keys |-> {}]
ListResult(s) == [kind |-> "list",   b |-> FALSE, rec |-> Null, keys |-> s]
Rejected   == [kind |-> "rejected",  b |-> FALSE, rec |-> Null, keys |-> {}]

NoKey == <<0, "">>

NoneResolved == [op |-> "none", failed |-> FALSE, result |-> BoolResult(FALSE)]

Resolved(o, out, r) == [op |-> o.op, failed |-> (out # "ok"), result |-> r]

IdleOp ==
    [op |-> "none", pc |-> "idle", key |-> NoKey, tab |-> "", val |-> Null,
     data |-> EmptyData, dirty |-> FALSE]

\* a patchTab that keeps nothing of the record it read
MutPatchedData(d, tab, v) == [EmptyData EXCEPT ![tab] = v]

\* existing.data[tabName] = tabData
PatchedData(d, tab, v) == [d EXCEPT ![tab] = v]

\* the lowest free slot: a new call takes it
FreeSlot(i) ==
    /\ ops[i].pc = "idle"
    /\ \A j \in OpIds : j < i => ops[j].pc # "idle"

\* history: a committed write to key k lands between the read and the write
\* of every patchTab on k that is between the two
Touch(o, k) ==
    [j \in OpIds |->
        IF o[j].op = "patchTab" /\ o[j].pc = "tx2" /\ o[j].key = k
        THEN [o[j] EXCEPT !.dirty = TRUE] ELSE o[j]]

TouchAll(o) ==
    [j \in OpIds |->
        IF o[j].op = "patchTab" /\ o[j].pc = "tx2"
        THEN [o[j] EXCEPT !.dirty = TRUE] ELSE o[j]]

(***************************************************************************)
(* cache.js: the calls                                                     *)
(***************************************************************************)
StartOp(i, op, k, tab, v, d) ==
    /\ FreeSlot(i)
    /\ ops' = [ops EXCEPT ![i] =
            [IdleOp EXCEPT !.op = op, !.pc = "tx", !.key = k, !.tab = tab,
                           !.val = v, !.data = d]]

CallGet(i, k) ==
    /\ StartOp(i, "get", k, "", Null, EmptyData)
    /\ UNCHANGED <<storeCreated, db, resolved, lastPut>>

CallPut(i, k, d) ==
    /\ StartOp(i, "put", k, "", Null, d)
    /\ UNCHANGED <<storeCreated, db, resolved, lastPut>>

CallPatchTab(i, k, tab, v) ==
    /\ StartOp(i, "patchTab", k, tab, v, EmptyData)
    /\ UNCHANGED <<storeCreated, db, resolved, lastPut>>

CallRemove(i, k) ==
    /\ StartOp(i, "remove", k, "", Null, EmptyData)
    /\ UNCHANGED <<storeCreated, db, resolved, lastPut>>

CallList(i) ==
    /\ StartOp(i, "list", NoKey, "", Null, EmptyData)
    /\ UNCHANGED <<storeCreated, db, resolved, lastPut>>

CallClear(i) ==
    /\ StartOp(i, "clear", NoKey, "", Null, EmptyData)
    /\ UNCHANGED <<storeCreated, db, resolved, lastPut>>

\* open(): a successful indexedDB.open has created the store (onupgradeneeded)
Opened(out) == storeCreated' = (storeCreated \/ out # "openFail")

\* the call in slot i settles with r
Settle(o, i, out, r) ==
    /\ ops' = [o EXCEPT ![i] = IdleOp]
    /\ resolved' = Resolved(ops[i], out, r)

\* get: `await open()` in the try, then the read request. The promise is
\* returned without await, so a failed request rejects get() itself
GetValue(k, out) ==
    CASE out = "ok"       -> RecResult(StoreGet(db, k))
      [] out = "openFail" -> RecResult(Null)
      [] OTHER            -> Rejected

TxGet(i, out) ==
    /\ ops[i].op = "get" /\ ops[i].pc = "tx"
    /\ Opened(out)
    /\ Settle(ops, i, out, GetValue(ops[i].key, out))
    /\ UNCHANGED <<db, lastPut>>

\* put / remove / clear: a failed open() is caught and gives false; a failed
\* transaction (tx.onerror) rejects the promise that was returned unawaited
WriteValue(out) ==
    CASE out = "ok"       -> BoolResult(TRUE)
      [] out = "openFail" -> BoolResult(FALSE)
      [] OTHER            -> Rejected

TxPut(i, out) ==
    /\ ops[i].op = "put" /\ ops[i].pc = "tx"
    /\ Opened(out)
    /\ IF out = "ok"
       THEN /\ db' = StorePut(db, ops[i].key, ops[i].data)
            /\ lastPut' = [lastPut EXCEPT ![ops[i].key] = Some(ops[i].data)]
            /\ Settle(Touch(ops, ops[i].key), i, out, WriteValue(out))
       ELSE /\ Settle(ops, i, out, WriteValue(out))
            /\ UNCHANGED <<db, lastPut>>

\* a patchTab that starts from an empty record when none is stored
MutTxPatchGet(i, out) ==
    /\ ops[i].op = "patchTab" /\ ops[i].pc = "tx"
    /\ Opened(out)
    /\ LET existing == IF out = "ok" THEN StoreGet(db, ops[i].key) ELSE Null IN
       /\ ops' = [ops EXCEPT
                    ![i].pc = "tx2",
                    ![i].data = PatchedData(IF existing = Null THEN EmptyData
                                            ELSE existing[1].data,
                                            ops[i].tab, ops[i].val)]
       /\ resolved' = resolved
    /\ UNCHANGED <<db, lastPut>>

\* patchTab: `const existing = await get(eventKey)`; a missing record, a
\* failed open() and a rejected get() all end in `return false`
TxPatchGet(i, out) ==
    /\ ops[i].op = "patchTab" /\ ops[i].pc = "tx"
    /\ Opened(out)
    /\ LET existing == IF out = "ok" THEN StoreGet(db, ops[i].key) ELSE Null IN
       IF existing = Null
       THEN Settle(ops, i, out, BoolResult(FALSE))
       ELSE /\ ops' = [ops EXCEPT
                    ![i].pc = "tx2",
                    ![i].data = PatchedData(existing[1].data, ops[i].tab, ops[i].val)]
            /\ resolved' = resolved
    /\ UNCHANGED <<db, lastPut>>

\* patchTab: `return await put(eventKey, existing.data)`; the catch turns a
\* rejected put into false
TxPatchPut(i, out) ==
    /\ ops[i].op = "patchTab" /\ ops[i].pc = "tx2"
    /\ Opened(out)
    /\ IF out = "ok"
       THEN /\ db' = StorePut(db, ops[i].key, ops[i].data)
            /\ lastPut' = [lastPut EXCEPT ![ops[i].key] = Some(ops[i].data)]
            /\ Settle(Touch(ops, ops[i].key), i, out, BoolResult(TRUE))
       ELSE /\ Settle(ops, i, out, BoolResult(FALSE))
            /\ UNCHANGED <<db, lastPut>>

\* remove: objectStore.delete in a readwrite transaction
TxRemove(i, out) ==
    /\ ops[i].op = "remove" /\ ops[i].pc = "tx"
    /\ Opened(out)
    /\ IF out = "ok"
       THEN /\ db' = StoreDelete(db, ops[i].key)
            /\ lastPut' = [lastPut EXCEPT ![ops[i].key] = Null]
            /\ Settle(Touch(ops, ops[i].key), i, out, WriteValue(out))
       ELSE /\ Settle(ops, i, out, WriteValue(out))
            /\ UNCHANGED <<db, lastPut>>

\* list: getAll in a readonly transaction (the event keys of the summaries)
ListValue(out) ==
    CASE out = "ok"       -> ListResult({r.event_key : r \in db})
      [] out = "openFail" -> ListResult({})
      [] OTHER            -> Rejected

TxList(i, out) ==
    /\ ops[i].op = "list" /\ ops[i].pc = "tx"
    /\ Opened(out)
    /\ Settle(ops, i, out, ListValue(out))
    /\ UNCHANGED <<db, lastPut>>

\* clear: objectStore.clear in a readwrite transaction
TxClear(i, out) ==
    /\ ops[i].op = "clear" /\ ops[i].pc = "tx"
    /\ Opened(out)
    /\ IF out = "ok"
       THEN /\ db' = {}
            /\ lastPut' = [k \in EventKeys |-> Null]
            /\ Settle(TouchAll(ops), i, out, WriteValue(out))
       ELSE /\ Settle(ops, i, out, WriteValue(out))
            /\ UNCHANGED <<db, lastPut>>

CacheInit ==
    /\ storeCreated = FALSE
    /\ db = {}
    /\ ops = [i \in OpIds |-> IdleOp]
    /\ resolved = NoneResolved
    /\ lastPut = [k \in EventKeys |-> Null]

CacheStep ==
    \/ \E i \in OpIds, k \in EventKeys : CallGet(i, k)
    \/ \E i \in OpIds, k \in EventKeys, d \in CacheSnapshots : CallPut(i, k, d)
    \/ \E i \in OpIds, k \in EventKeys, t \in PatchTabs : CallPatchTab(i, k, t, PatchVal(t))
    \/ \E i \in OpIds, k \in EventKeys : CallRemove(i, k)
    \/ \E i \in OpIds : CallList(i)
    \/ \E i \in OpIds : CallClear(i)
    \/ \E i \in OpIds, out \in Outcomes : TxGet(i, out)
    \/ \E i \in OpIds, out \in Outcomes : TxPut(i, out)
    \/ \E i \in OpIds, out \in Outcomes : TxPatchGet(i, out)
    \/ \E i \in OpIds, out \in Outcomes : TxPatchPut(i, out)
    \/ \E i \in OpIds, out \in Outcomes : TxRemove(i, out)
    \/ \E i \in OpIds, out \in Outcomes : TxList(i, out)
    \/ \E i \in OpIds, out \in Outcomes : TxClear(i, out)

(***************************************************************************)
(* app.js: what the backend answers                                        *)
(***************************************************************************)
\* breakdown data exists from this season on
BreakdownYear == 2025

\* the season the dropdown lists: API.seasonEvents(2026)
SeasonYear == 2026

\* matches of an event
MatchCount == 2

\* team keys of the rankings table
TeamCount == 7

\* the compare limit of toggleCompareTeam
CompareLimit == 6

Statuses == {"ongoing", "completed"}

Regions == {"", "r"}

\* /events/{key}/info
InfosOf(k) == {[key |-> k, status |-> s, region |-> r] : s \in Statuses, r \in Regions}

\* /events/{key}/teams: the team list, at two moments of the event
TeamsOf(k) == {[ev |-> k, rev |-> v] : v \in {"a", "b"}}

\* /matches/{key}/all: the matches, each with its has_breakdown flag
MatchesOf(k) == {[ev |-> k, has_breakdown |-> f] : f \in [1..MatchCount -> BOOLEAN]}

\* /matches/{key}/playoffs: { matches: [...] }, here one played match of set 1
PlayoffsOf(k) ==
    {[matches |-> << [bracket |-> "upper", set_number |-> 1, match_number |-> 1,
                      winning_alliance |-> "red",
                      red |-> [alliance_number |-> 1, score |-> 5],
                      blue |-> [alliance_number |-> 8, score |-> 3]] >>]}

\* /alliances/{key}
AlliancesOf(k) == {[ev |-> k]}

\* /events/{key}/summary
SummariesOf(k) == {[ev |-> k]}

\* a present value or null (a failed request caught with `.catch(() => null)`)
OrNull(S) == {Null} \cup {Some(x) : x \in S}

\* the event keys the season dropdown offers
SeasonKeys == {k \in EventKeys : k[1] = SeasonYear}

(***************************************************************************)
(* app.js: the API object (every entry goes through API.get)               *)
(***************************************************************************)
\* a request sent with another method
MutApiPost(api, arg) == [method |-> "POST", api |-> api, arg |-> arg]

\* API.get(path): fetch(`/api${path}`) with no options is a GET
ApiGet(api, arg) == [method |-> "GET", api |-> api, arg |-> arg]

NoEffects == [by |-> "none", sent |-> {}, alert |-> ""]

Effects(by, sent, alert) == [by |-> by, sent |-> sent, alert |-> alert]

(***************************************************************************)
(* app.js: helpers                                                         *)
(***************************************************************************)
CallIds == 1..MaxCalls

IdleCall ==
    [fn |-> "none", pc |-> "idle", key |-> NoKey, manual |-> FALSE,
     snap |-> EmptyData, m |-> 0, own |-> FALSE, alone |-> FALSE, bd |-> Null]

FreeCall(c) ==
    /\ calls[c].pc = "idle"
    /\ \A j \in CallIds : j < c => calls[j].pc # "idle"

\* history: another handler runs while the calls in flight are suspended
Disturbed(cs) == [c \in CallIds |-> [cs[c] EXCEPT !.alone = FALSE]]

\* a global is reassigned: the calls of `fns` no longer hold the object it names
Disowned(cs, fns) ==
    [c \in CallIds |-> IF cs[c].fn \in fns THEN [cs[c] EXCEPT !.own = FALSE] ELSE cs[c]]

\* loadSavedEvent keeps `info`, the object eventInfoData was set to
InfoHolders == {"loadSavedEvent"}

\* loadBdMatch and pollBdMatch keep `m`, an element of bdData.matches
MatchHolders == {"loadBdMatch", "pollBdMatch"}

\* renderPbpConnections keeps `match`, an element of pbpData.matches
PbpHolders == {"renderPbpConnections"}

\* the holders of an element of the one list pbpData and bdData both name
ListHolders == MatchHolders \cup PbpHolders

Holders == InfoHolders \cup ListHolders

Quiet == (\A c \in CallIds : calls[c].pc = "idle") /\ (\A i \in OpIds : ops[i].pc = "idle")

\* an async function is called and suspends at its first await
Begin(cs, c, rec) == [Disturbed(cs) EXCEPT ![c] = [rec EXCEPT !.alone = Quiet]]

\* `${year}${eventCode}`.substring(0, 4) and .substring(4)
YearOf(k) == k[1]

EventCodeOf(k) == k[2]

NoTabs == [playoff |-> FALSE, alliance |-> FALSE, playbyplay |-> FALSE,
           breakdown |-> FALSE, history |-> FALSE]

Timers == {"poll", "list", "rankings"}

\* a stop that forgets the variable and leaves the interval running
MutCleared(iv, name, held) == iv

\* clearInterval(id) of the interval the variable holds, if it holds one
Cleared(iv, name, held) == IF held THEN [iv EXCEPT ![name] = iv[name] - 1] ELSE iv

\* setInterval(callback, ...)
Started(iv, name) == [iv EXCEPT ![name] = iv[name] + 1]

\* the free slots of the EventCache call table, lowest first
RECURSIVE FreeOps(_, _)
FreeOps(o, i) ==
    IF i > MaxOps THEN <<>>
    ELSE IF o[i].pc = "idle" THEN <<i>> \o FreeOps(o, i + 1)
    ELSE FreeOps(o, i + 1)

\* autoCacheTab(tabName, tabData) for each <<tabName, tabData>> of `patches`,
\* in order: nothing when there is no current event or the data is null,
\* else EventCache.patchTab(currentEvent, tabName, tabData) is started
RECURSIVE Spawn(_, _, _)
Spawn(o, cur, patches) ==
    IF patches = <<>> THEN o
    ELSE IF cur = Null \/ Head(patches)[2] = Null THEN Spawn(o, cur, Tail(patches))
    ELSE LET i == Head(FreeOps(o, 1)) IN
         Spawn([o EXCEPT ![i] = [IdleOp EXCEPT !.op = "patchTab", !.pc = "tx",
                                               !.key = cur, !.tab = Head(patches)[1],
                                               !.val = Head(patches)[2]]],
               cur, Tail(patches))

\* the model has room for the patchTab calls of `patches`
RoomFor(cur, patches) ==
    Len(FreeOps(ops, 1)) >=
        Cardinality({n \in 1..Len(patches) : cur # Null /\ patches[n][2] # Null})

AutoCacheTabs(cur, patches) ==
    /\ RoomFor(cur, patches)
    /\ ops' = Spawn(ops, cur, patches)
    /\ UNCHANGED <<storeCreated, db, resolved, lastPut>>

\* m.has_breakdown = true on match n (0-based) of a match list
Flagged(list, n) == [list EXCEPT !.has_breakdown[n + 1] = TRUE]

(***************************************************************************)
(* app.js: renderBracketTree                                               *)
(***************************************************************************)
\* sets of the double-elimination bracket (SET_DESCRIPTIONS 1..13)
SetCount == 13

\* playoff matches in a list the backend supplies
PlayoffLen == 2

\* the slot of the grand final, slot('f', 'Final')
FinalSlot == SetCount + 1

SlotIds == 1..FinalSlot

\* the sets whose winners meet in set s, as SET_DESCRIPTIONS words it
Feeders(s) ==
    CASE s = 7 -> <<1, 2>>
      [] s = 8 -> <<3, 4>>
      [] s = 11 -> <<7, 8>>
      [] s = 12 -> <<9, 10>>
      [] OTHER -> <<>>

\* the playoff matches a response may hold
Alliance(n, score) == [alliance_number |-> n, score |-> score]

PlayoffMatch(b, s, n, w, redScore, blueScore) ==
    [bracket |-> b, set_number |-> s, match_number |-> n, winning_alliance |-> w,
     red |-> Alliance(1, redScore), blue |-> Alliance(4, blueScore)]

PlayoffMatches ==
    {PlayoffMatch("upper", 1, 1, "red", 5, 3), PlayoffMatch("upper", 1, 2, "", 0 - 1, 0 - 1),
     PlayoffMatch("upper", 2, 1, "red", 5, 3), PlayoffMatch("upper", 2, 1, "blue", 3, 5),
     PlayoffMatch("upper", 7, 1, "", 0 - 1, 0 - 1), PlayoffMatch("upper", 7, 2, "red", 5, 3),
     PlayoffMatch("final", 1, 1, "red", 5, 3), PlayoffMatch("final", 1, 2, "", 0 - 1, 0 - 1)}

RECURSIVE ListsUpTo(_, _)
ListsUpTo(S, n) ==
    IF n = 0 THEN {<<>>}
    ELSE LET shorter == ListsUpTo(S, n - 1) IN
         shorter \cup {Append(l, x) : l \in {t \in shorter : Len(t) = n - 1}, x \in S}

\* /matches/{key}/playoffs answers for the bracket
BracketResults == {[matches |-> l] : l \in ListsUpTo(PlayoffMatches, PlayoffLen)}

\* an index that keeps the match of set s listed last
RECURSIVE MutBySet(_, _, _)
MutBySet(list, s, acc) ==
    IF list = <<>> THEN acc
    ELSE LET m == Head(list) IN
         MutBySet(Tail(list), s,
                  IF m.bracket # "final" /\ m.set_number = s THEN Some(m) ELSE acc)

\* bySet[s] after the forEach: the first match of set s with the highest
\* match_number (finals are kept apart)
RECURSIVE BySet(_, _, _)
BySet(list, s, acc) ==
    IF list = <<>> THEN acc
    ELSE LET m == Head(list) IN
         BySet(Tail(list), s,
               IF m.bracket # "final" /\ m.set_number = s
                  /\ (acc = Null \/ m.match_number > acc[1].match_number)
               THEN Some(m) ELSE acc)

\* gf: finals.reduce((a, b) => b.match_number > a.match_number ? b : a)
RECURSIVE Gf(_, _)
Gf(list, acc) ==
    IF list = <<>> THEN acc
    ELSE LET m == Head(list) IN
         Gf(Tail(list),
            IF m.bracket = "final" /\ (acc = Null \/ m.match_number > acc[1].match_number)
            THEN Some(m) ELSE acc)

\* an entry rule that advances the winners of decided feeder sets
MutEntry(list, s) ==
    LET own == IF s = FinalSlot THEN Gf(list, Null) ELSE BySet(list, s, Null)
        f   == Feeders(s)
    IN
    IF own = Null /\ f # <<>>
    THEN LET a == BySet(list, f[1], Null)
             b == BySet(list, f[2], Null)
         IN IF a # Null /\ b # Null
            THEN IF a[1].winning_alliance # "" /\ b[1].winning_alliance # ""
                 THEN Some([bracket |-> "upper", set_number |-> s, match_number |-> 1,
                            winning_alliance |-> "", red |-> Alliance(a[1].red.alliance_number, 0 - 1),
                            blue |-> Alliance(b[1].red.alliance_number, 0 - 1)])
                 ELSE own
            ELSE own
    ELSE own

\* `const m = setNum === 'f' ? gf : bySet[setNum]`
Entry(list, s) == IF s = FinalSlot THEN Gf(list, Null) ELSE BySet(list, s, Null)

TbdSlot ==
    [tbd |-> TRUE, decided |-> FALSE, upcoming |-> FALSE, replay |-> 0,
     redWon |-> FALSE, blueWon |-> FALSE, redSeed |-> 0, blueSeed |-> 0,
     redScore |-> Null, blueScore |-> Null]

\* slot(setNum, label) for the match m, or TBD without one
Slot(m) ==
    IF m = Null THEN TbdSlot
    ELSE LET redWon   == m[1].winning_alliance = "red"
             blueWon  == m[1].winning_alliance = "blue"
             upcoming == m[1].red.score < 0 /\ m[1].blue.score < 0
         IN [tbd |-> FALSE, decided |-> redWon \/ blueWon, upcoming |-> upcoming,
             replay |-> IF m[1].match_number > 1 THEN m[1].match_number ELSE 0,
             redWon |-> redWon, blueWon |-> blueWon,
             redSeed |-> m[1].red.alliance_number, blueSeed |-> m[1].blue.alliance_number,
             redScore |-> IF upcoming THEN Null ELSE Some(m[1].red.score),
             blueScore |-> IF upcoming THEN Null ELSE Some(m[1].blue.score)]

\* #playoff-bracket emptied: innerHTML = ''
BlankView == [kind |-> "blank", slots |-> <<>>]

\* 'No playoff matches found.'
NoMatchesView == [kind |-> "message", slots |-> <<>>]

\* renderBracketTree() on the list playoffData holds
RenderBracketTree(data) ==
    IF data = Null THEN NoMatchesView
    ELSE IF Len(data[1]) = 0 THEN NoMatchesView
    ELSE [kind |-> "tree", slots |-> [s \in SlotIds |-> Slot(Entry(data[1], s))]]

(***************************************************************************)
(* app.js: loadEvent                                                       *)
(***************************************************************************)
\* "Reset state" of loadEvent and loadSavedEvent (teamsData is not reset)
ResetState ==
    /\ playoffData' = Null /\ allianceData' = Null /\ summaryData' = Null
    /\ eventInfoData' = Null /\ pbpData' = Null /\ bdData' = Null
    /\ pbpIndex' = 0 /\ bdIndex' = 0 /\ bdShared' = FALSE
    /\ bdPollTimer' = FALSE /\ bdListTimer' = FALSE
    /\ intervals' = Cleared(Cleared(intervals, "poll", bdPollTimer), "list", bdListTimer)
    /\ renderedTabs' = NoTabs
    /\ UNCHANGED <<teamsData, rankingsRefreshTimer>>

\* the load button while a manual load runs
BtnLoading == [disabled |-> TRUE, text |-> "Loading", origText |-> loadBtn.text, loading |-> TRUE]

\* a restore that leaves the button disabled
MutBtnRestored ==
    [loadBtn EXCEPT !.loading = FALSE,
                    !.text = IF loadBtn.origText = "" THEN "Load Event" ELSE loadBtn.origText]

\* the load button restored: btn.dataset.origText || 'Load Event'
BtnRestored ==
    [loadBtn EXCEPT !.disabled = FALSE, !.loading = FALSE,
                    !.text = IF loadBtn.origText = "" THEN "Load Event" ELSE loadBtn.origText]

\* loadEvent() from the button or the Enter key with an input left empty
LoadEventNoInput ==
    /\ effects' = Effects("user", {}, "")
    /\ UNCHANGED <<eventVars, dataVars, navVars, timerVars, uiVars, calls, saved, panelVars, cacheVars>>

\* loadEvent(eventKey) up to its first await. manual: called with no argument
\* from the button or the Enter key, the key read from the two inputs;
\* otherwise called by selectSeasonEvent, which shows the season indicators
LoadEvent(c, code, manual) ==
    /\ FreeCall(c)
    /\ loadBtn' = IF manual THEN BtnLoading ELSE loadBtn
    /\ seasonBusy' = IF manual THEN seasonBusy ELSE TRUE
    /\ ResetState
    /\ calls' = Begin(Disowned(calls, Holders), c,
                      [IdleCall EXCEPT !.fn = "loadEvent", !.pc = "phase1", !.key = code,
                                       !.manual = manual])
    /\ effects' = Effects("user", {ApiGet("eventInfo", code), ApiGet("eventTeams", code)}, "")
    /\ lastLoad' = Some(code)
    /\ UNCHANGED <<eventVars, activeTab, compareSelection, dotLoading, saveLabel,
                   bracketView, saved, pbpConnections, bdContent, cacheVars>>

\* startRankingsPolling(): stop, then start only for an ongoing event
RankingsPolling(status) ==
    /\ rankingsRefreshTimer' = (status = Some("ongoing"))
    /\ intervals' =
         LET iv == Cleared(intervals, "rankings", rankingsRefreshTimer) IN
         IF status = Some("ongoing") THEN Started(iv, "rankings") ELSE iv

\* info.status || null
StatusOf(info) == IF info.status = "" THEN Null ELSE Some(info.status)

\* phase 1 succeeded: both requests of Promise.all resolved
LoadEventLoaded(c, info, teams) ==
    /\ calls[c].fn = "loadEvent" /\ calls[c].pc = "phase1"
    /\ LET code == calls[c].key IN
       /\ loadBtn' = IF calls[c].manual THEN BtnRestored ELSE loadBtn
       /\ seasonBusy' = FALSE
       /\ currentEvent' = code
       /\ currentEventYear' = Some(YearOf(code))
       /\ eventInfoData' = Some(info)
       /\ selectedEvent' = Some([year |-> YearOf(code), eventCode |-> EventCodeOf(code)])
       /\ currentEventStatus' = StatusOf(info)
       /\ eventRegion' = info.region
       /\ AutoCacheTabs(code, << <<"info", Some(info)>>, <<"teams", Some(teams)>> >>)
       /\ RankingsPolling(StatusOf(info))
       /\ teamsData' = Some(teams)
       /\ bracketView' = BlankView
       /\ bdContent' = Null
       /\ dotLoading' = TRUE
       /\ calls' = [Disowned(calls, InfoHolders) EXCEPT ![c].pc = "phase2"]
       /\ effects' = Effects("response",
                             {ApiGet("allMatches", code), ApiGet("playoffMatches", code),
                              ApiGet("alliances", code)}, "")
    /\ UNCHANGED <<summaryData, pbpData, bdData, playoffData, allianceData,
                   navVars, bdPollTimer, bdListTimer, saveLabel, saved, pbpConnections,
                   lastLoad>>

\* phase 1 failed: the catch block
LoadEventFailed(c) ==
    /\ calls[c].fn = "loadEvent" /\ calls[c].pc = "phase1"
    /\ loadBtn' = IF calls[c].manual THEN BtnRestored ELSE loadBtn
    /\ seasonBusy' = FALSE
    /\ dotLoading' = FALSE
    /\ calls' = [calls EXCEPT ![c] = IdleCall]
    /\ effects' = Effects("response", {}, "Error loading event")
    /\ UNCHANGED <<eventVars, dataVars, navVars, timerVars, saveLabel, bracketView, saved, panelVars,
                   cacheVars>>

\* phase 2: the three preloads have settled (each null if it failed)
LoadEventPreloaded(c, matchData, playoffResult, allianceResult) ==
    /\ calls[c].fn = "loadEvent" /\ calls[c].pc = "phase2"
    /\ IF currentEvent # calls[c].key
       THEN /\ calls' = [calls EXCEPT ![c] = IdleCall]
            /\ UNCHANGED <<pbpData, bdData, bdShared, playoffData, allianceData, cacheVars>>
       ELSE /\ pbpData' = IF matchData # Null THEN matchData ELSE pbpData
            /\ bdData' = IF matchData # Null THEN matchData ELSE bdData
            /\ bdShared' = IF matchData # Null THEN TRUE ELSE bdShared
            /\ playoffData' = IF playoffResult # Null
                              THEN Some(playoffResult[1].matches) ELSE playoffData
            /\ allianceData' = IF allianceResult # Null THEN allianceResult ELSE allianceData
            /\ AutoCacheTabs(currentEvent,
                             << <<"matches", matchData>>, <<"alliances", allianceResult>> >>)
            /\ calls' = [(IF matchData # Null THEN Disowned(calls, ListHolders) ELSE calls)
                            EXCEPT ![c] = IdleCall]
    /\ dotLoading' = FALSE
    /\ effects' = Effects("response", {}, "")
    /\ UNCHANGED <<eventVars, eventInfoData, teamsData, summaryData, pbpIndex, bdIndex,
                   renderedTabs, activeTab, compareSelection, timerVars,
                   loadBtn, seasonBusy, saveLabel, bracketView, saved, panelVars>>

(***************************************************************************)
(* app.js: saveCurrentEvent, loadSavedEvent, backgroundRefreshEvent        *)
(***************************************************************************)
\* the snapshot saveCurrentEvent builds from the loaded client data
Snapshot ==
    [info |-> eventInfoData, teams |-> teamsData, summary |-> summaryData,
     matches |-> pbpData,
     playoffs |-> IF playoffData # Null THEN Some([matches |-> playoffData[1]]) ELSE Null,
     alliances |-> allianceData, connections |-> Null, connections_alltime |-> Null]

\* saveCurrentEvent() up to `await EventCache.put(currentEvent, snapshot)`;
\* the button is disabled until the label is reset
SaveCurrentEvent(c, i) ==
    /\ currentEvent # Null
    /\ saveLabel = "Save Event"
    /\ FreeCall(c)
    /\ saveLabel' = "Saving"
    /\ StartOp(i, "put", currentEvent, "", Null, Snapshot)
    /\ calls' = Begin(calls, c,
                      [IdleCall EXCEPT !.fn = "saveCurrentEvent", !.pc = "put",
                                       !.key = currentEvent, !.m = i, !.bd = Some(bdData)])
    /\ effects' = Effects("user", {}, "")
    /\ UNCHANGED <<eventVars, dataVars, navVars, timerVars, loadBtn, seasonBusy, dotLoading,
                   bracketView, saved, panelVars, storeCreated, db, resolved, lastPut>>

\* the put settles: 'Saved' whatever it resolved with, 'Error!' if it rejected
SaveCurrentEventPut(c, out) ==
    /\ calls[c].fn = "saveCurrentEvent" /\ calls[c].pc = "put"
    /\ TxPut(calls[c].m, out)
    /\ saveLabel' = IF WriteValue(out) = Rejected THEN "Error!" ELSE "Saved"
    /\ saved' = IF out = "ok"
                THEN [saved EXCEPT ![calls[c].key] =
                         Some([data |-> ops[calls[c].m].data, bd |-> calls[c].bd[1]])]
                ELSE saved
    /\ calls' = [calls EXCEPT ![c] = IdleCall]
    /\ effects' = Effects("cache", {}, "")
    /\ UNCHANGED <<eventVars, dataVars, navVars, timerVars, loadBtn, seasonBusy, dotLoading,
                   bracketView, panelVars>>

\* setTimeout: the label and the button are reset
SaveLabelTimeout ==
    /\ saveLabel \in {"Saved", "Error!"}
    /\ saveLabel' = "Save Event"
    /\ calls' = Disturbed(calls)
    /\ effects' = Effects("timer", {}, "")
    /\ UNCHANGED <<eventVars, dataVars, navVars, timerVars, loadBtn, seasonBusy, dotLoading,
                   bracketView, saved, panelVars, cacheVars>>

\* deleteSavedEvent(eventKey) up to `await EventCache.remove(eventKey)`
DeleteSavedEvent(c, i, k) ==
    /\ StoreGet(db, k) # Null
    /\ FreeCall(c)
    /\ StartOp(i, "remove", k, "", Null, EmptyData)
    /\ calls' = Begin(calls, c,
                      [IdleCall EXCEPT !.fn = "deleteSavedEvent", !.pc = "remove",
                                       !.key = k, !.m = i])
    /\ effects' = Effects("user", {}, "")
    /\ UNCHANGED <<eventVars, dataVars, navVars, timerVars, uiVars, saved, panelVars,
                   storeCreated, db, resolved, lastPut>>

DeleteSavedEventRemoved(c, out) ==
    /\ calls[c].fn = "deleteSavedEvent" /\ calls[c].pc = "remove"
    /\ TxRemove(calls[c].m, out)
    /\ saved' = IF out = "ok" THEN [saved EXCEPT ![calls[c].key] = Null] ELSE saved
    /\ calls' = [calls EXCEPT ![c] = IdleCall]
    /\ effects' = Effects("cache", {}, "")
    /\ UNCHANGED <<eventVars, dataVars, navVars, timerVars, uiVars, panelVars>>

\* loadSavedEvent(eventKey) up to `await EventCache.get(eventKey)`; the saved
\* events list offers the keys EventCache.list() returned
LoadSavedEvent(c, i, k) ==
    /\ StoreGet(db, k) # Null
    /\ FreeCall(c)
    /\ ResetState
    /\ StartOp(i, "get", k, "", Null, EmptyData)
    /\ calls' = Begin(Disowned(calls, Holders), c,
                      [IdleCall EXCEPT !.fn = "loadSavedEvent", !.pc = "get",
                                       !.key = k, !.m = i])
    /\ effects' = Effects("user", {}, "")
    /\ UNCHANGED <<eventVars, activeTab, compareSelection, uiVars, saved, panelVars,
                   storeCreated, db, resolved, lastPut>>

\* what get() gave loadSavedEvent: snapshot.data, or null when the call
\* rejected, found nothing, or the snapshot lacks info or teams
UsableData(k, out) ==
    LET r == GetValue(k, out) IN
    IF r.kind = "rec" /\ r.rec # Null
    THEN IF r.rec[1].data.info # Null /\ r.rec[1].data.teams # Null
         THEN Some(r.rec[1].data) ELSE Null
    ELSE Null

\* the four requests of backgroundRefreshEvent
RefreshRequests(k) ==
    {ApiGet("eventTeams", k), ApiGet("allMatches", k), ApiGet("playoffMatches", k),
     ApiGet("alliances", k)}

\* a catch: 'Error loading saved event'
LoadSavedEventThrown(c, out) ==
    /\ calls[c].fn = "loadSavedEvent" /\ calls[c].pc = "get"
    /\ UsableData(calls[c].key, out) = Null
    /\ TxGet(calls[c].m, out)
    /\ calls' = [calls EXCEPT ![c] = IdleCall]
    /\ effects' = Effects("cache", {}, "Error loading saved event")
    /\ UNCHANGED <<eventVars, dataVars, navVars, timerVars, uiVars, saved, panelVars>>

\* a reload that leaves the match list as it is
MutSavedMatches(data, cur) == cur

\* `if (data.matches) { pbpData = data.matches; bdData = data.matches; }`:
\* the new value of a variable that held cur
SavedMatches(data, cur) == IF data.matches # Null THEN data.matches ELSE cur

\* "Pre-populate tab data from cache" and what follows it: `status` is the
\* value of currentEventStatus when line 905 reads it
Populate(c, base, data, status) ==
    /\ bracketView' = BlankView
    /\ teamsData' = data.teams
    /\ pbpData' = SavedMatches(data, pbpData)
    /\ bdData' = SavedMatches(data, bdData)
    /\ bdShared' = IF data.matches # Null THEN TRUE ELSE bdShared
    /\ playoffData' = IF data.playoffs # Null
                      THEN Some(data.playoffs[1].matches) ELSE playoffData
    /\ allianceData' = IF data.alliances # Null THEN data.alliances ELSE allianceData
    /\ summaryData' = IF data.summary # Null THEN data.summary ELSE summaryData
    /\ LET cs == IF data.matches # Null THEN Disowned(base, ListHolders) ELSE base IN
       IF status = Some("ongoing")
       THEN /\ calls' = [cs EXCEPT ![c] =
                    [IdleCall EXCEPT !.fn = "backgroundRefreshEvent", !.pc = "fetch",
                                     !.key = calls[c].key, !.alone = calls[c].alone]]
            /\ effects' = Effects("cache", RefreshRequests(calls[c].key), "")
       ELSE /\ calls' = [cs EXCEPT ![c] = IdleCall]
            /\ effects' = Effects("cache", {}, "")

\* lines 796-823: the event of the snapshot becomes the active event
Activate(k, info) ==
    /\ currentEvent' = k
    /\ currentEventYear' = Some(YearOf(k))
    /\ selectedEvent' = Some([year |-> YearOf(k), eventCode |-> EventCodeOf(k)])
    /\ currentEventStatus' = StatusOf(info)
    /\ eventRegion' = info.region

\* the snapshot has a region: the function runs to its end without a request
\* for the region
LoadSavedEventDone(c, out) ==
    /\ calls[c].fn = "loadSavedEvent" /\ calls[c].pc = "get"
    /\ UsableData(calls[c].key, out) # Null
    /\ LET data == UsableData(calls[c].key, out)[1] IN
       /\ data.info[1].region # ""
       /\ TxGet(calls[c].m, out)
       /\ Activate(calls[c].key, data.info[1])
       /\ eventInfoData' = data.info
       /\ Populate(c, Disowned(calls, InfoHolders), data, StatusOf(data.info[1]))
    /\ UNCHANGED <<pbpIndex, bdIndex, renderedTabs, activeTab, compareSelection,
                   timerVars, loadBtn, seasonBusy, dotLoading, saveLabel, saved, panelVars>>

\* the snapshot has no region: `await API.eventInfo(currentEvent)`
LoadSavedEventAwaitRegion(c, out) ==
    /\ calls[c].fn = "loadSavedEvent" /\ calls[c].pc = "get"
    /\ UsableData(calls[c].key, out) # Null
    /\ LET data == UsableData(calls[c].key, out)[1] IN
       /\ data.info[1].region = ""
       /\ TxGet(calls[c].m, out)
       /\ Activate(calls[c].key, data.info[1])
       /\ eventInfoData' = data.info
       /\ calls' = [Disowned(calls, InfoHolders) EXCEPT
                        ![c].pc = "region", ![c].snap = data, ![c].own = TRUE]
       /\ effects' = Effects("cache", {ApiGet("eventInfo", calls[c].key)}, "")
    /\ UNCHANGED <<teamsData, summaryData, pbpData, bdData, playoffData, allianceData,
                   navVars, timerVars, uiVars, saved, panelVars>>

\* the live info arrived (null if the request failed): region patched into
\* `info`, then the rest of the function
LoadSavedEventRegion(c, liveInfo) ==
    /\ calls[c].fn = "loadSavedEvent" /\ calls[c].pc = "region"
    /\ LET found == liveInfo # Null /\ liveInfo[1].region # "" IN
       /\ eventRegion' = IF found THEN liveInfo[1].region ELSE eventRegion
       /\ eventInfoData' =
            IF found /\ calls[c].own
            THEN Some([eventInfoData[1] EXCEPT !.region = liveInfo[1].region])
            ELSE eventInfoData
    /\ Populate(c, calls, calls[c].snap, currentEventStatus)
    /\ UNCHANGED <<currentEvent, currentEventYear, currentEventStatus, selectedEvent,
                   pbpIndex, bdIndex, renderedTabs, activeTab, compareSelection,
                   timerVars, loadBtn, seasonBusy, dotLoading, saveLabel, saved, panelVars, cacheVars>>

\* backgroundRefreshEvent: the four requests have settled (each null if it
\* failed)
BackgroundRefreshed(c, freshTeams, freshMatches, freshPlayoffs, freshAlliances) ==
    /\ calls[c].fn = "backgroundRefreshEvent" /\ calls[c].pc = "fetch"
    /\ IF currentEvent # calls[c].key
       THEN /\ calls' = [calls EXCEPT ![c] = IdleCall]
            /\ UNCHANGED <<teamsData, pbpData, bdData, bdShared, playoffData, allianceData,
                           bracketView, cacheVars>>
       ELSE /\ teamsData' = IF freshTeams # Null THEN freshTeams ELSE teamsData
            /\ pbpData' = IF freshMatches # Null THEN freshMatches ELSE pbpData
            /\ bdData' = IF freshMatches # Null THEN freshMatches ELSE bdData
            /\ bdShared' = IF freshMatches # Null THEN TRUE ELSE bdShared
            /\ playoffData' = IF freshPlayoffs # Null
                              THEN Some(freshPlayoffs[1].matches) ELSE playoffData
            /\ bracketView' = IF freshPlayoffs # Null /\ renderedTabs.playoff
                              THEN RenderBracketTree(Some(freshPlayoffs[1].matches))
                              ELSE bracketView
            /\ allianceData' = IF freshAlliances # Null THEN freshAlliances ELSE allianceData
            /\ AutoCacheTabs(currentEvent,
                             << <<"teams", freshTeams>>, <<"matches", freshMatches>> >>)
            /\ calls' = [(IF freshMatches # Null THEN Disowned(calls, ListHolders) ELSE calls)
                            EXCEPT ![c] = IdleCall]
    /\ effects' = Effects("response", {}, "")
    /\ UNCHANGED <<eventVars, eventInfoData, summaryData, pbpIndex, bdIndex, renderedTabs,
                   activeTab, compareSelection, timerVars, loadBtn, seasonBusy, dotLoading,
                   saveLabel, saved, panelVars>>

(***************************************************************************)
(* app.js: the tab click handler and the lazy tab loaders                  *)
(***************************************************************************)
AppTabs == {"events", "rankings", "summary", "playoff", "alliance", "playbyplay",
            "breakdown", "history"}

\* currentEventYear && currentEventYear < 2025
Pre2025 == currentEventYear # Null /\ currentEventYear[1] < BreakdownYear

\* the async loader a click on `tab` calls and that suspends at a request
Loader(tab) ==
    IF currentEvent = Null THEN "none"
    ELSE CASE tab = "summary" /\ summaryData = Null -> "loadSummary"
           [] tab = "playoff" /\ ~renderedTabs.playoff /\ playoffData = Null -> "loadPlayoffs"
           [] tab = "alliance" /\ ~renderedTabs.alliance /\ allianceData = Null -> "loadAlliances"
           [] tab = "playbyplay" /\ ~renderedTabs.playbyplay /\ pbpData = Null
                -> "loadPlayByPlay"
           [] tab = "breakdown" /\ ~Pre2025 /\ ~renderedTabs.breakdown /\ bdData = Null
                /\ pbpData = Null -> "loadBreakdownTab"
           [] tab = "history" /\ ~renderedTabs.history -> "loadHistory"
           [] OTHER -> "none"

\* the requests a loader sends before it suspends
LoaderRequests(fn) ==
    CASE fn = "loadSummary" -> {ApiGet("eventSummary", currentEvent)}
      [] fn = "loadPlayoffs" -> {ApiGet("playoffMatches", currentEvent)}
      [] fn = "loadAlliances" -> {ApiGet("alliances", currentEvent)}
      [] fn \in {"loadPlayByPlay", "loadBreakdownTab"} -> {ApiGet("allMatches", currentEvent)}
      [] fn = "loadHistory" ->
            {ApiGet("eventHistory", currentEvent)} \cup
            (IF eventRegion # "" THEN {ApiGet("regionFacts", eventRegion)} ELSE {})
      [] OTHER -> {}

\* loadBdMatch() suspended at `await API.matchBreakdown(m.key)`, m the match
\* at index n of the list bdData names
BdMatchCall(fn, list, n) ==
    [IdleCall EXCEPT !.fn = fn, !.pc = "fetch", !.key = list.ev, !.m = n, !.own = TRUE]

BdMatchRequest(list, n) == ApiGet("matchBreakdown", <<list.ev, n>>)

\* renderPbpConnections(match) suspended at `await fetchMatchConnections(..)`
\* with nothing cached for the teams of the match at index n of `list`
PbpConnCall(list, n) ==
    [IdleCall EXCEPT !.fn = "renderPbpConnections", !.pc = "fetch", !.key = list.ev,
                     !.m = n, !.own = TRUE]

PbpConnRequest(list, n) == ApiGet("eventConnections", <<list.ev, n>>)

\* a click on a tab button
TabClick(tab, c) ==
    LET cur     == currentEvent # Null
        \* the play-by-play tab is drawn from pbpData: renderPbpMatch()
        showPbp == tab = "playbyplay" /\ cur /\ ~renderedTabs.playbyplay /\ pbpData # Null
        enter   == tab = "breakdown" /\ ~Pre2025 /\ cur /\ ~renderedTabs.breakdown
        \* bdData is set: the first-time branch of the handler
        first   == enter /\ bdData # Null
        \* loadBreakdownTab() finds pbpData and runs on without a request
        adopt   == enter /\ bdData = Null /\ pbpData # Null
        showBd  == first \/ adopt
        bdNow   == IF adopt THEN pbpData ELSE bdData
        idxNow  == IF showBd THEN 0 ELSE bdIndex
        drawn   == [renderedTabs EXCEPT
                      !.playoff = @ \/ (tab = "playoff" /\ cur /\ playoffData # Null),
                      !.alliance = @ \/ (tab = "alliance" /\ cur /\ allianceData # Null),
                      !.playbyplay = @ \/ (tab = "playbyplay" /\ cur /\ pbpData # Null),
                      !.breakdown = @ \/ first]
        \* "Re-entering breakdown tab after it was already loaded"
        reenter == tab = "breakdown" /\ drawn.breakdown /\ bdNow # Null
        resume  == reenter /\ ~bdNow[1].has_breakdown[idxNow + 1]
        fn      == Loader(tab)
        ivPoll  == IF tab # "breakdown" \/ showBd \/ resume
                   THEN Cleared(intervals, "poll", bdPollTimer) ELSE intervals
        ivPoll2 == IF resume THEN Started(ivPoll, "poll") ELSE ivPoll
        ivList  == IF tab # "breakdown" \/ showBd \/ reenter
                   THEN Cleared(ivPoll2, "list", bdListTimer) ELSE ivPoll2
    IN
    /\ IF showBd \/ showPbp \/ fn # "none" THEN FreeCall(c) ELSE c = 1
    /\ activeTab' = tab
    /\ compareSelection' = IF tab # "rankings" THEN {} ELSE compareSelection
    /\ renderedTabs' = drawn
    /\ pbpIndex' = IF showPbp THEN 0 ELSE pbpIndex
    /\ pbpConnections' = IF showPbp THEN Null ELSE pbpConnections
    /\ bdContent' = IF showBd THEN Null ELSE bdContent
    /\ bdIndex' = idxNow
    /\ bdData' = bdNow
    /\ bdShared' = IF adopt THEN TRUE ELSE bdShared
    /\ bdPollTimer' = IF tab # "breakdown" \/ showBd THEN resume
                      ELSE (bdPollTimer \/ resume)
    /\ bdListTimer' = IF tab # "breakdown" THEN FALSE ELSE (bdListTimer \/ showBd \/ reenter)
    /\ intervals' = IF showBd \/ reenter THEN Started(ivList, "list") ELSE ivList
    /\ calls' = IF showBd THEN Begin(calls, c, BdMatchCall("loadBdMatch", bdNow[1], 0))
                ELSE IF showPbp THEN Begin(calls, c, PbpConnCall(pbpData[1], 0))
                ELSE IF fn # "none"
                THEN Begin(calls, c, [IdleCall EXCEPT !.fn = fn, !.pc = "fetch",
                                                      !.key = currentEvent])
                ELSE Disturbed(calls)
    /\ effects' = Effects("user",
                          IF showBd THEN {BdMatchRequest(bdNow[1], 0)}
                          ELSE IF showPbp THEN {PbpConnRequest(pbpData[1], 0)}
                          ELSE LoaderRequests(fn),
                          "")
    /\ bracketView' = IF tab = "playoff" /\ cur /\ ~renderedTabs.playoff /\ playoffData # Null
                      THEN RenderBracketTree(playoffData) ELSE bracketView
    /\ UNCHANGED <<eventVars, eventInfoData, teamsData, summaryData, pbpData, playoffData,
                   allianceData, rankingsRefreshTimer, loadBtn, seasonBusy, dotLoading,
                   saveLabel, saved, lastLoad, cacheVars>>

\* loadSummary: the summary arrived, or the request failed (null)
LoadSummaryAnswered(c, data) ==
    /\ calls[c].fn = "loadSummary"
    /\ IF data # Null
       THEN /\ summaryData' = data
            /\ AutoCacheTabs(currentEvent, << <<"summary", data>> >>)
            /\ effects' = Effects("response", {}, "")
       ELSE /\ effects' = Effects("response", {}, "Error loading summary")
            /\ UNCHANGED <<summaryData, cacheVars>>
    /\ calls' = [calls EXCEPT ![c] = IdleCall]
    /\ UNCHANGED <<eventVars, eventInfoData, teamsData, pbpData, bdData, playoffData,
                   allianceData, navVars, timerVars, uiVars, saved, panelVars>>

\* loadPlayoffs
LoadPlayoffsAnswered(c, data) ==
    /\ calls[c].fn = "loadPlayoffs"
    /\ playoffData' = IF data # Null THEN Some(data[1].matches) ELSE playoffData
    /\ bracketView' = IF data # Null THEN RenderBracketTree(Some(data[1].matches))
                      ELSE bracketView
    /\ effects' = Effects("response", {}, IF data # Null THEN "" ELSE "Error loading playoffs")
    /\ calls' = [calls EXCEPT ![c] = IdleCall]
    /\ UNCHANGED <<eventVars, eventInfoData, teamsData, summaryData, pbpData, bdData,
                   allianceData, navVars, timerVars, loadBtn, seasonBusy, dotLoading,
                   saveLabel, saved, panelVars, cacheVars>>

\* loadAlliances
LoadAlliancesAnswered(c, data) ==
    /\ calls[c].fn = "loadAlliances"
    /\ IF data # Null
       THEN /\ allianceData' = data
            /\ AutoCacheTabs(currentEvent, << <<"alliances", data>> >>)
            /\ effects' = Effects("response", {}, "")
       ELSE /\ effects' = Effects("response", {}, "Error loading alliances")
            /\ UNCHANGED <<allianceData, cacheVars>>
    /\ calls' = [calls EXCEPT ![c] = IdleCall]
    /\ UNCHANGED <<eventVars, eventInfoData, teamsData, summaryData, pbpData, bdData,
                   playoffData, navVars, timerVars, uiVars, saved, panelVars>>

\* loadPlayByPlay: pbpData is set to the list that arrived, bdData is not,
\* and renderPbpMatch() draws its first match
LoadPlayByPlayAnswered(c, data) ==
    /\ calls[c].fn = "loadPlayByPlay"
    /\ pbpData' = IF data # Null THEN data ELSE pbpData
    /\ pbpIndex' = IF data # Null THEN 0 ELSE pbpIndex
    /\ bdShared' = IF data # Null THEN FALSE ELSE bdShared
    /\ pbpConnections' = IF data # Null THEN Null ELSE pbpConnections
    /\ effects' = Effects("response",
                          IF data # Null THEN {PbpConnRequest(data[1], 0)} ELSE {},
                          IF data # Null THEN "" ELSE "Error loading matches")
    /\ calls' = IF data # Null
                THEN [Disowned(calls, PbpHolders) EXCEPT
                         ![c] = [PbpConnCall(data[1], 0) EXCEPT !.alone = calls[c].alone]]
                ELSE [calls EXCEPT ![c] = IdleCall]
    /\ UNCHANGED <<eventVars, eventInfoData, teamsData, summaryData, bdData, playoffData,
                   allianceData, bdIndex, renderedTabs, activeTab, compareSelection,
                   timerVars, uiVars, saved, bdContent, lastLoad, cacheVars>>

\* renderPbpConnections after `await fetchMatchConnections(..)` (a failed
\* request counts as no connections): the guard, then the panel is drawn
RenderPbpConnectionsAnswered(c) ==
    /\ calls[c].fn = "renderPbpConnections"
    /\ pbpConnections' = IF pbpData # Null /\ ~(calls[c].own /\ calls[c].m = pbpIndex)
                         THEN pbpConnections
                         ELSE Some(<<calls[c].key, calls[c].m>>)
    /\ calls' = [calls EXCEPT ![c] = IdleCall]
    /\ effects' = Effects("response", {}, "")
    /\ UNCHANGED <<eventVars, dataVars, navVars, timerVars, uiVars, saved, bdContent,
                   lastLoad, cacheVars>>

\* loadBreakdownTab after `await API.allMatches(currentEvent)`: on success
\* bdData = pbpData, loadBdMatch() and startBdListRefresh()
LoadBreakdownTabAnswered(c, data) ==
    /\ calls[c].fn = "loadBreakdownTab"
    /\ IF data # Null
       THEN /\ pbpData' = data
            /\ bdData' = data
            /\ bdShared' = TRUE
            /\ bdIndex' = 0
            /\ bdPollTimer' = FALSE
            /\ bdListTimer' = TRUE
            /\ intervals' = Started(Cleared(Cleared(intervals, "poll", bdPollTimer),
                                            "list", bdListTimer), "list")
            /\ calls' = [Disowned(calls, ListHolders) EXCEPT
                            ![c] = [BdMatchCall("loadBdMatch", data[1], 0) EXCEPT
                                        !.alone = calls[c].alone]]
            /\ bdContent' = Null
            /\ effects' = Effects("response", {BdMatchRequest(data[1], 0)}, "")
       ELSE /\ calls' = [calls EXCEPT ![c] = IdleCall]
            /\ effects' = Effects("response", {}, "Error loading matches")
            /\ UNCHANGED <<pbpData, bdData, bdShared, bdIndex, bdPollTimer, bdListTimer,
                           intervals, bdContent>>
    /\ UNCHANGED <<eventVars, eventInfoData, teamsData, summaryData, playoffData,
                   allianceData, pbpIndex, renderedTabs, activeTab, compareSelection,
                   rankingsRefreshTimer, uiVars, saved, pbpConnections, lastLoad, cacheVars>>

\* loadHistory: both requests settled (failures are turned into null)
LoadHistoryAnswered(c) ==
    /\ calls[c].fn = "loadHistory"
    /\ renderedTabs' = [renderedTabs EXCEPT !.history = TRUE]
    /\ calls' = [calls EXCEPT ![c] = IdleCall]
    /\ effects' = Effects("response", {}, "")
    /\ UNCHANGED <<eventVars, dataVars, pbpIndex, bdIndex, bdShared, activeTab,
                   compareSelection, timerVars, uiVars, saved, panelVars, cacheVars>>

(***************************************************************************)
(* app.js: arrow keys, breakdown match loading and polling                 *)
(***************************************************************************)
\* bdData.matches.length
MatchesLength(list) == Len(list.has_breakdown)

\* pbpPrev() / pbpNext() that move whatever the index
MutPbpStep(right, c) ==
    LET idxNow == IF right THEN pbpIndex + 1 ELSE pbpIndex - 1 IN
    /\ c = 1
    /\ pbpIndex' = idxNow
    /\ calls' = Disturbed(calls)
    /\ effects' = Effects("user", {}, "")
    /\ UNCHANGED <<eventVars, dataVars, bdIndex, bdShared, renderedTabs, activeTab,
                   compareSelection, timerVars, uiVars, saved, panelVars, cacheVars>>

\* pbpPrev() / pbpNext(): the index moves and renderPbpMatch() draws the match
PbpStep(right, c) ==
    LET moves   == IF right THEN pbpData # Null /\ pbpIndex < MatchesLength(pbpData[1]) - 1
                   ELSE pbpIndex > 0
        idxNow  == IF moves THEN (IF right THEN pbpIndex + 1 ELSE pbpIndex - 1) ELSE pbpIndex
        renders == moves /\ pbpData # Null
    IN
    /\ IF renders THEN FreeCall(c) ELSE c = 1
    /\ pbpIndex' = idxNow
    /\ pbpConnections' = IF renders THEN Null ELSE pbpConnections
    /\ calls' = IF renders THEN Begin(calls, c, PbpConnCall(pbpData[1], idxNow))
                ELSE Disturbed(calls)
    /\ effects' = Effects("user",
                          IF renders THEN {PbpConnRequest(pbpData[1], idxNow)} ELSE {}, "")
    /\ UNCHANGED <<eventVars, dataVars, bdIndex, bdShared, renderedTabs, activeTab,
                   compareSelection, timerVars, uiVars, saved, bdContent, lastLoad, cacheVars>>

\* bdPrev() / bdNext(): the index moves and loadBdMatch() runs up to its request
BdStep(right, c) ==
    LET moves  == IF right THEN bdData # Null /\ bdIndex < MatchesLength(bdData[1]) - 1
                  ELSE bdIndex > 0
        idxNow == IF moves THEN (IF right THEN bdIndex + 1 ELSE bdIndex - 1) ELSE bdIndex
        loads  == moves /\ bdData # Null
    IN
    /\ IF loads THEN FreeCall(c) ELSE c = 1
    /\ bdIndex' = idxNow
    /\ bdPollTimer' = IF loads THEN FALSE ELSE bdPollTimer
    /\ intervals' = IF loads THEN Cleared(intervals, "poll", bdPollTimer) ELSE intervals
    /\ bdContent' = IF loads THEN Null ELSE bdContent
    /\ calls' = IF loads THEN Begin(calls, c, BdMatchCall("loadBdMatch", bdData[1], idxNow))
                ELSE Disturbed(calls)
    /\ effects' = Effects("user",
                          IF loads THEN {BdMatchRequest(bdData[1], idxNow)} ELSE {}, "")
    /\ UNCHANGED <<eventVars, dataVars, pbpIndex, bdShared, renderedTabs, activeTab,
                   compareSelection, bdListTimer, rankingsRefreshTimer, uiVars, saved,
                   pbpConnections, lastLoad, cacheVars>>

\* bdGoTo(idx), idx the value of an option of #bd-match-select
BdGoTo(idx, c) ==
    LET loads == bdData # Null IN
    /\ IF loads THEN FreeCall(c) ELSE c = 1
    /\ bdIndex' = idx
    /\ bdPollTimer' = IF loads THEN FALSE ELSE bdPollTimer
    /\ intervals' = IF loads THEN Cleared(intervals, "poll", bdPollTimer) ELSE intervals
    /\ bdContent' = IF loads THEN Null ELSE bdContent
    /\ calls' = IF loads THEN Begin(calls, c, BdMatchCall("loadBdMatch", bdData[1], idx))
                ELSE Disturbed(calls)
    /\ effects' = Effects("user", IF loads THEN {BdMatchRequest(bdData[1], idx)} ELSE {}, "")
    /\ UNCHANGED <<eventVars, dataVars, pbpIndex, bdShared, renderedTabs, activeTab,
                   compareSelection, bdListTimer, rankingsRefreshTimer, uiVars, saved,
                   pbpConnections, lastLoad, cacheVars>>

\* a keydown the handler leaves alone: focus in an input, select or textarea,
\* another key, or neither tab active with its list
KeyIgnored ==
    /\ calls' = Disturbed(calls)
    /\ effects' = Effects("user", {}, "")
    /\ UNCHANGED <<eventVars, dataVars, navVars, timerVars, uiVars, saved, panelVars,
                   cacheVars>>

\* document.activeElement?.tagName, "" for no element
FocusTags == {"", "BODY", "INPUT", "SELECT", "TEXTAREA"}

\* the keydown handler for ArrowLeft / ArrowRight with the focus in an
\* element of tag `tag`
KeyDown(right, tag, c) ==
    LET pbpActive == activeTab = "playbyplay" /\ pbpData # Null
        bdActive  == activeTab = "breakdown" /\ bdData # Null
    IN
    IF tag \in {"INPUT", "SELECT", "TEXTAREA"} THEN c = 1 /\ KeyIgnored
    ELSE IF pbpActive THEN PbpStep(right, c)
    ELSE IF bdActive THEN BdStep(right, c)
    ELSE c = 1 /\ KeyIgnored

\* ArrowLeft / ArrowRight outside an input: pbpPrev / pbpNext on the
\* play-by-play tab, bdPrev / bdNext (and loadBdMatch) on the breakdown tab
ArrowKey(right, c) == KeyDown(right, "BODY", c)

\* m.has_breakdown = true, seen through bdData (and pbpData) if the list of
\* m is still the one they name
FlagOwned(c) ==
    /\ bdData' = IF calls[c].own THEN Some(Flagged(bdData[1], calls[c].m)) ELSE bdData
    /\ pbpData' = IF calls[c].own /\ bdShared
                  THEN Some(Flagged(pbpData[1], calls[c].m)) ELSE pbpData

\* loadBdMatch after the request: available, or not (or the request failed)
LoadBdMatchAnswered(c, available) ==
    /\ calls[c].fn = "loadBdMatch"
    /\ IF available
       THEN /\ FlagOwned(c)
            /\ bdPollTimer' = FALSE
            /\ intervals' = Cleared(intervals, "poll", bdPollTimer)
       ELSE /\ bdPollTimer' = TRUE
            /\ intervals' = Started(Cleared(intervals, "poll", bdPollTimer), "poll")
            /\ UNCHANGED <<bdData, pbpData>>
    /\ bdContent' = IF available THEN Some(<<calls[c].key, calls[c].m>>) ELSE Null
    /\ calls' = [calls EXCEPT ![c] = IdleCall]
    /\ effects' = Effects("response", {}, "")
    /\ UNCHANGED <<eventVars, eventInfoData, teamsData, summaryData, playoffData,
                   allianceData, navVars, bdListTimer, rankingsRefreshTimer, uiVars, saved,
                   pbpConnections, lastLoad, cacheVars>>

\* the poll interval fires: pollBdMatch() up to its request
PollBdMatchTick(c) ==
    /\ intervals["poll"] > 0
    /\ IF bdData = Null
       THEN /\ c = 1
            /\ calls' = Disturbed(calls)
            /\ effects' = Effects("timer", {}, "")
       ELSE /\ FreeCall(c)
            /\ calls' = Begin(calls, c, BdMatchCall("pollBdMatch", bdData[1], bdIndex))
            /\ effects' = Effects("timer", {BdMatchRequest(bdData[1], bdIndex)}, "")
    /\ UNCHANGED <<eventVars, dataVars, navVars, timerVars, uiVars, saved, panelVars, cacheVars>>

\* pollBdMatch after the request
PollBdMatchAnswered(c, available) ==
    /\ calls[c].fn = "pollBdMatch"
    /\ IF available
       THEN /\ FlagOwned(c)
            /\ bdPollTimer' = FALSE
            /\ intervals' = Cleared(intervals, "poll", bdPollTimer)
       ELSE UNCHANGED <<bdData, pbpData, bdPollTimer, intervals>>
    /\ bdContent' = IF available THEN Some(<<calls[c].key, calls[c].m>>) ELSE bdContent
    /\ calls' = [calls EXCEPT ![c] = IdleCall]
    /\ effects' = Effects("response", {}, "")
    /\ UNCHANGED <<eventVars, eventInfoData, teamsData, summaryData, playoffData,
                   allianceData, navVars, bdListTimer, rankingsRefreshTimer, uiVars, saved,
                   pbpConnections, lastLoad, cacheVars>>

(***************************************************************************)
(* app.js: the comparison selection                                        *)
(***************************************************************************)
TeamKeys == 1..TeamCount

\* a toggle that adds whatever the size
MutToggled(sel, teamKey) ==
    IF teamKey \in sel THEN sel \ {teamKey} ELSE sel \cup {teamKey}

\* toggleCompareTeam(teamKey) on the set
Toggled(sel, teamKey) ==
    IF teamKey \in sel THEN sel \ {teamKey}
    ELSE IF Cardinality(sel) >= CompareLimit THEN sel
    ELSE sel \cup {teamKey}

ToggleCompareTeam(teamKey) ==
    /\ compareSelection' = Toggled(compareSelection, teamKey)
    /\ calls' = Disturbed(calls)
    /\ effects' = Effects("user", {}, "")
    /\ UNCHANGED <<eventVars, dataVars, pbpIndex, bdIndex, bdShared, renderedTabs, activeTab,
                   timerVars, uiVars, saved, panelVars, cacheVars>>

ClearCompareSelection ==
    /\ compareSelection' = {}
    /\ calls' = Disturbed(calls)
    /\ effects' = Effects("user", {}, "")
    /\ UNCHANGED <<eventVars, dataVars, pbpIndex, bdIndex, bdShared, renderedTabs, activeTab,
                   timerVars, uiVars, saved, panelVars, cacheVars>>

(***************************************************************************)
(* app.js: clearActiveEvent, restoreEvent, refreshRankings                 *)
(***************************************************************************)
\* clearActiveEvent()
ClearActiveEvent ==
    /\ currentEvent' = Null /\ currentEventYear' = Null /\ currentEventStatus' = Null
    /\ selectedEvent' = Null
    /\ rankingsRefreshTimer' = FALSE
    /\ intervals' = Cleared(intervals, "rankings", rankingsRefreshTimer)
    /\ calls' = Disturbed(calls)
    /\ effects' = Effects("user", {}, "")
    /\ UNCHANGED <<eventRegion, dataVars, navVars, bdPollTimer, bdListTimer, uiVars, saved, panelVars,
                   cacheVars>>

\* a stored text JSON.parse throws on
CorruptEntry == [year |-> 0, eventCode |-> "{"]

\* what localStorage may hold under 'selectedEvent': nothing, a text that is
\* not JSON, an object without a year or without a code, a year and a code
StoredEntries ==
    {Null, Some(CorruptEntry)}
    \cup {Some([year |-> 0, eventCode |-> EventCodeOf(k)]) : k \in EventKeys}
    \cup {Some([year |-> YearOf(k), eventCode |-> ""]) : k \in EventKeys}
    \cup {Some([year |-> YearOf(k), eventCode |-> EventCodeOf(k)]) : k \in EventKeys}

\* document.readyState when the script runs
ReadyStates == {"loading", "interactive"}

\* another page of the origin, or the user, writes the entry
StorageChanged(entry) ==
    /\ selectedEvent' = entry
    /\ effects' = NoEffects
    /\ UNCHANGED <<currentEvent, currentEventYear, currentEventStatus, eventRegion,
                   dataVars, navVars, timerVars, uiVars, calls, saved, panelVars, cacheVars>>

\* restoreEvent(): the key loadEvent() is started for, or null. With the
\* document still loading apply() waits for DOMContentLoaded; otherwise it
\* runs at once and loadEvent() reads `$` before line 301 has initialized it:
\* its promise is rejected with a ReferenceError and nothing is loaded
RestoreTarget(entry, readyState) ==
    IF entry = Null THEN Null
    ELSE IF entry[1] = CorruptEntry THEN Null
    ELSE IF entry[1].year = 0 \/ entry[1].eventCode = "" THEN Null
    ELSE IF readyState = "loading"
         THEN Some(<<entry[1].year, entry[1].eventCode>>)
         ELSE Null

\* the page is loaded again: the globals are new, localStorage and IndexedDB
\* are kept, restoreEvent() runs
PageReload(readyState) ==
    LET target == RestoreTarget(selectedEvent, readyState) IN
    /\ currentEvent' = Null /\ currentEventYear' = Null /\ currentEventStatus' = Null
    /\ eventRegion' = ""
    /\ eventInfoData' = Null /\ teamsData' = Null /\ summaryData' = Null
    /\ pbpData' = Null /\ bdData' = Null /\ playoffData' = Null /\ allianceData' = Null
    /\ pbpIndex' = 0 /\ bdIndex' = 0 /\ bdShared' = FALSE
    /\ renderedTabs' = NoTabs /\ activeTab' = "events" /\ compareSelection' = {}
    /\ bdPollTimer' = FALSE /\ bdListTimer' = FALSE /\ rankingsRefreshTimer' = FALSE
    /\ intervals' = [t \in Timers |-> 0]
    /\ loadBtn' = IF target # Null
                  THEN [disabled |-> TRUE, text |-> "Loading", origText |-> "Load Event",
                        loading |-> TRUE]
                  ELSE [disabled |-> FALSE, text |-> "Load Event", origText |-> "",
                        loading |-> FALSE]
    /\ seasonBusy' = FALSE /\ dotLoading' = FALSE /\ saveLabel' = "Save Event"
    /\ bracketView' = BlankView
    /\ calls' = [c \in CallIds |->
                    IF c = 1 /\ target # Null
                    THEN [IdleCall EXCEPT !.fn = "loadEvent", !.pc = "phase1",
                                          !.key = target[1], !.manual = TRUE, !.alone = TRUE]
                    ELSE IdleCall]
    /\ effects' = Effects("reload",
                          IF target # Null
                          THEN {ApiGet("eventInfo", target[1]), ApiGet("eventTeams", target[1])}
                          ELSE {}, "")
    /\ ops' = [i \in OpIds |-> IdleOp]
    /\ resolved' = NoneResolved
    /\ pbpConnections' = Null /\ bdContent' = Null /\ lastLoad' = target
    /\ UNCHANGED <<selectedEvent, saved, storeCreated, db, lastPut>>

\* the rankings interval fires: refreshRankings() up to its request
RefreshRankingsTick(c) ==
    /\ intervals["rankings"] > 0
    /\ IF currentEvent = Null
       THEN /\ c = 1
            /\ rankingsRefreshTimer' = FALSE
            /\ intervals' = Cleared(intervals, "rankings", rankingsRefreshTimer)
            /\ calls' = Disturbed(calls)
            /\ effects' = Effects("timer", {}, "")
       ELSE /\ FreeCall(c)
            /\ calls' = Begin(calls, c, [IdleCall EXCEPT !.fn = "refreshRankings",
                                                         !.pc = "fetch", !.key = currentEvent])
            /\ effects' = Effects("timer", {ApiGet("refreshRankings", currentEvent)}, "")
            /\ UNCHANGED <<rankingsRefreshTimer, intervals>>
    /\ UNCHANGED <<eventVars, dataVars, navVars, bdPollTimer, bdListTimer, uiVars, saved, panelVars,
                   cacheVars>>

\* refreshRankings after the request: buildTeamTable(teams) sets teamsData;
\* a failure is ignored
RefreshRankingsAnswered(c, teams) ==
    /\ calls[c].fn = "refreshRankings"
    /\ teamsData' = IF teams # Null THEN teams ELSE teamsData
    /\ calls' = [calls EXCEPT ![c] = IdleCall]
    /\ effects' = Effects("response", {}, "")
    /\ UNCHANGED <<eventVars, eventInfoData, summaryData, pbpData, bdData, playoffData,
                   allianceData, navVars, timerVars, uiVars, saved, panelVars, cacheVars>>

(***************************************************************************)
(* api.js / app.js: API.get                                                *)
(***************************************************************************)
\* the `detail` of a JSON object: absent, a string (FastAPI HTTPException),
\* or an array of objects (FastAPI validation errors)
Details ==
    {[type |-> "undefined", str |-> ""],
     [type |-> "string", str |-> ""],
     [type |-> "string", str |-> "Event not found"],
     [type |-> "array", str |-> ""]}

\* a response body: not JSON (an HTML error page), the JSON text null, or a
\* JSON object
Bodies ==
    {[kind |-> "text", detail |-> [type |-> "undefined", str |-> ""]],
     [kind |-> "null", detail |-> [type |-> "undefined", str |-> ""]]}
    \cup {[kind |-> "object", detail |-> d] : d \in Details}

HttpStatuses == {200, 404, 500}

\* resp.ok: the status is in the range 200-299
Ok(status) == status \in 200..299

Responses == {[status |-> s, body |-> b] : s \in HttpStatuses, b \in Bodies}

\* `HTTP ${resp.status}`
HttpText(status) ==
    CASE status = 200 -> "HTTP 200"
      [] status = 404 -> "HTTP 404"
      [] status = 500 -> "HTTP 500"

\* ToBoolean(detail): undefined and '' are falsy, an array is truthy
Truthy(d) ==
    CASE d.type = "undefined" -> FALSE
      [] d.type = "string" -> d.str # ""
      [] d.type = "array" -> TRUE

\* String(detail), as new Error(detail) converts its argument
ErrorText(d) ==
    CASE d.type = "string" -> d.str
      [] d.type = "array" -> "[object Object]"
      [] d.type = "undefined" -> "undefined"

NoResponse == [status |-> 0, body |-> [kind |-> "none", detail |-> [type |-> "undefined", str |-> ""]]]

NoOutcome == [settled |-> "pending", error |-> "", message |-> "", value |-> NoResponse.body]

GetResolved(v) == [settled |-> "resolved", error |-> "", message |-> "", value |-> v]

GetRejected(error, message) ==
    [settled |-> "rejected", error |-> error, message |-> message, value |-> NoResponse.body]

\* await resp.json().catch(() => ({})): the parsed body, {} when the body is
\* not JSON
ErrorBody(body) ==
    IF body.kind = "text"
    THEN [kind |-> "object", detail |-> [type |-> "undefined", str |-> ""]]
    ELSE body

\* what API.get settles to once the body of `resp` has been read
GetOutcome(resp) ==
    IF ~Ok(resp.status)
    THEN LET body == ErrorBody(resp.body) IN
         IF body.kind = "null"
         THEN GetRejected("TypeError", "Cannot read properties of null (reading 'detail')")
         ELSE GetRejected("Error", IF Truthy(body.detail) THEN ErrorText(body.detail)
                                ELSE HttpText(resp.status))
    ELSE IF resp.body.kind = "text"
         THEN GetRejected("SyntaxError", "Unexpected token")
         ELSE GetResolved(resp.body)

\* API.get(path) up to await fetch(...)
ApiGetCalled(c, request) ==
    /\ FreeCall(c)
    /\ calls' = [calls EXCEPT ![c] = [fn |-> "API.get", pc |-> "fetch", request |-> request,
                                      resp |-> NoResponse, outcome |-> NoOutcome]]
    /\ effects' = Effects("user", {request}, "")
    /\ UNCHANGED <<eventVars, dataVars, navVars, timerVars, uiVars, saved, panelVars, cacheVars>>

\* fetch resolved with a response: resp.json() is awaited
ApiGetResponded(c, resp) ==
    /\ calls[c].fn = "API.get" /\ calls[c].pc = "fetch"
    /\ calls' = [calls EXCEPT ![c].pc = "json", ![c].resp = resp]
    /\ effects' = Effects("response", {}, "")
    /\ UNCHANGED <<eventVars, dataVars, navVars, timerVars, uiVars, saved, panelVars, cacheVars>>

\* fetch rejected: no response (network error)
ApiGetUnreachable(c) ==
    /\ calls[c].fn = "API.get" /\ calls[c].pc = "fetch"
    /\ calls' = [calls EXCEPT ![c].pc = "settled",
                              ![c].outcome = GetRejected("TypeError", "Failed to fetch")]
    /\ effects' = Effects("response", {}, "")
    /\ UNCHANGED <<eventVars, dataVars, navVars, timerVars, uiVars, saved, panelVars, cacheVars>>

\* the body has been read: the promise of API.get settles
ApiGetSettled(c) ==
    /\ calls[c].fn = "API.get" /\ calls[c].pc = "json"
    /\ calls' = [calls EXCEPT ![c].pc = "settled", ![c].outcome = GetOutcome(calls[c].resp)]
    /\ effects' = Effects("response", {}, "")
    /\ UNCHANGED <<eventVars, dataVars, navVars, timerVars, uiVars, saved, panelVars, cacheVars>>

\* the caller has taken the outcome
ApiGetTaken(c) ==
    /\ calls[c].fn = "API.get" /\ calls[c].pc = "settled"
    /\ calls' = [calls EXCEPT ![c] = IdleCall]
    /\ effects' = NoEffects
    /\ UNCHANGED <<eventVars, dataVars, navVars, timerVars, uiVars, saved, panelVars, cacheVars>>

(***************************************************************************)
(* app.js: the static tables of the double-elimination bracket             *)
(***************************************************************************)
\* the entrants a description names: '#n' a seed, 'Ws' the winner and 'Ls'
\* the loser of set s
Seed(n) == [kind |-> "seed", n |-> n]

W(s) == [kind |-> "W", n |-> s]

L(s) == [kind |-> "L", n |-> s]

UPPER_R1_PAIRS == << <<1, 2>>, <<3, 4>> >>

UPPER_R2_PAIR == <<7, 8>>

LOWER_R2_SETS == <<5, 6>>

LOWER_R3_SETS == <<9, 10>>

LOWER_R3_PAIR == <<9, 10>>

LOWER_R5_SET == 13

\* a table in which the loser of set 7 drops twice and the loser of set 8
\* nowhere
MutSetDescriptions ==
    << <<Seed(1), Seed(8)>>, <<Seed(4), Seed(5)>>, <<Seed(2), Seed(7)>>, <<Seed(3), Seed(6)>>,
       <<L(1), L(2)>>, <<L(3), L(4)>>,
       <<W(1), W(2)>>, <<W(3), W(4)>>,
       <<W(5), L(7)>>, <<W(6), L(7)>>,
       <<W(7), W(8)>>, <<W(9), W(10)>>, <<W(12), L(11)>>,
       <<W(11), W(13)>> >>

\* SET_DESCRIPTIONS, the entry 'f' at index FinalSlot
SET_DESCRIPTIONS ==
    << <<Seed(1), Seed(8)>>, <<Seed(4), Seed(5)>>, <<Seed(2), Seed(7)>>, <<Seed(3), Seed(6)>>,
       <<L(1), L(2)>>, <<L(3), L(4)>>,
       <<W(1), W(2)>>, <<W(3), W(4)>>,
       <<W(5), L(8)>>, <<W(6), L(7)>>,
       <<W(7), W(8)>>, <<W(9), W(10)>>, <<W(12), L(11)>>,
       <<W(11), W(13)>> >>

(***************************************************************************)
(* app.js: refreshBdList                                                   *)
(***************************************************************************)
\* /matches/{key}/all asked again later: the list may be shorter or longer
\* than the one shown
FreshOf(k) ==
    {[ev |-> k, has_breakdown |-> f] :
        f \in UNION {[1..n -> BOOLEAN] : n \in 0..(MatchCount + 1)}}

\* m.key of match n (1-based) of a list
MatchKey(list, n) == <<list.ev, n>>

\* keyMap[key], or undefined (null)
KeyMap(fresh, key) ==
    IF \E n \in 1..Len(fresh.has_breakdown) : MatchKey(fresh, n) = key
    THEN Some(fresh.has_breakdown[CHOOSE n \in 1..Len(fresh.has_breakdown) :
                                      MatchKey(fresh, n) = key])
    ELSE Null

\* a merge that copies the fresh flags
MutMerged(list, fresh) ==
    [list EXCEPT !.has_breakdown =
        [n \in DOMAIN @ |->
            LET fm == KeyMap(fresh, MatchKey(list, n)) IN
            IF fm # Null THEN fm[1] ELSE @[n]]]

\* the forEach of lines 2373-2379 on the list bdData names
Merged(list, fresh) ==
    [list EXCEPT !.has_breakdown =
        [n \in DOMAIN @ |->
            LET fm == KeyMap(fresh, MatchKey(list, n)) IN
            IF fm # Null /\ fm[1] /\ ~@[n] THEN TRUE ELSE @[n]]]

\* the list interval fires: refreshBdList() up to its request
RefreshBdListTick(c) ==
    /\ intervals["list"] > 0
    /\ IF currentEvent = Null
       THEN /\ c = 1
            /\ calls' = Disturbed(calls)
            /\ effects' = Effects("timer", {}, "")
       ELSE /\ FreeCall(c)
            /\ calls' = Begin(calls, c, [IdleCall EXCEPT !.fn = "refreshBdList",
                                                         !.pc = "fetch", !.key = currentEvent])
            /\ effects' = Effects("timer", {ApiGet("allMatches", currentEvent)}, "")
    /\ UNCHANGED <<eventVars, dataVars, navVars, timerVars, uiVars, saved, panelVars, cacheVars>>

\* refreshBdList after the request: `fresh` is null when the request failed
\* (the catch is silent). The flags are set on the objects bdData names,
\* which pbpData names too while the two share one list
RefreshBdListAnswered(c, fresh) ==
    /\ calls[c].fn = "refreshBdList"
    /\ bdData' = IF fresh # Null /\ bdData # Null
                 THEN Some(Merged(bdData[1], fresh[1])) ELSE bdData
    /\ pbpData' = IF fresh # Null /\ bdData # Null /\ bdShared
                  THEN Some(Merged(pbpData[1], fresh[1])) ELSE pbpData
    /\ calls' = [calls EXCEPT ![c] = IdleCall]
    /\ effects' = Effects("refresh", {}, "")
    /\ UNCHANGED <<eventVars, eventInfoData, teamsData, summaryData, playoffData,
                   allianceData, navVars, timerVars, uiVars, saved, panelVars, cacheVars>>

(***************************************************************************)
(* Initial state and the specifications                                    *)
(***************************************************************************)
\* the page has just been loaded
PageInit ==
    /\ currentEvent = Null /\ currentEventYear = Null /\ currentEventStatus = Null
    /\ eventRegion = "" /\ selectedEvent = Null
    /\ eventInfoData = Null /\ teamsData = Null /\ summaryData = Null
    /\ pbpData = Null /\ bdData = Null /\ playoffData = Null /\ allianceData = Null
    /\ pbpIndex = 0 /\ bdIndex = 0 /\ bdShared = FALSE
    /\ renderedTabs = NoTabs /\ activeTab = "events" /\ compareSelection = {}
    /\ bdPollTimer = FALSE /\ bdListTimer = FALSE /\ rankingsRefreshTimer = FALSE
    /\ intervals = [t \in Timers |-> 0]
    /\ loadBtn = [disabled |-> FALSE, text |-> "Load Event", origText |-> "", loading |-> FALSE]
    /\ seasonBusy = FALSE /\ dotLoading = FALSE /\ saveLabel = "Save Event"
    /\ bracketView = BlankView
    /\ pbpConnections = Null /\ bdContent = Null /\ lastLoad = Null
    /\ calls = [c \in CallIds |-> IdleCall]
    /\ effects = NoEffects

AppInit == PageInit /\ saved = [k \in EventKeys |-> Null]

Init == CacheInit /\ AppInit

\* EventCache used directly
CacheNext == CacheStep /\ UNCHANGED appVars

SpecCache == Init /\ [][CacheNext]_vars

\* no async function of app.js is suspended: the user has waited for the page
Settled == \A c \in CallIds : calls[c].pc = "idle"

\* the transactions of the patchTab calls that autoCacheTab started
PatchStep(outs) ==
    /\ \/ \E i \in OpIds, out \in outs : TxPatchGet(i, out)
       \/ \E i \in OpIds, out \in outs : TxPatchPut(i, out)
    /\ effects' = NoEffects
    /\ UNCHANGED <<eventVars, dataVars, navVars, timerVars, uiVars, calls, saved, panelVars>>

\* ---- loading and saving with a working IndexedDB ----
LoadInfos(k) == {i \in InfosOf(k) : i.region = "r"}

LoadTeams(k) == {t \in TeamsOf(k) : t.rev = "a"}

LoadMatches(k) == {m \in MatchesOf(k) : \A n \in 1..MatchCount : ~m.has_breakdown[n]}

LoadNext ==
    \/ LoadEventNoInput
    \/ \E c \in CallIds, k \in EventKeys : LoadEvent(c, k, TRUE)
    \/ \E c \in CallIds, k \in SeasonKeys : LoadEvent(c, k, FALSE)
    \/ \E c \in CallIds :
        \E info \in LoadInfos(calls[c].key), teams \in LoadTeams(calls[c].key) :
            LoadEventLoaded(c, info, teams)
    \/ \E c \in CallIds : LoadEventFailed(c)
    \/ \E c \in CallIds :
        \E md \in OrNull(LoadMatches(calls[c].key)), pr \in OrNull(PlayoffsOf(calls[c].key)) :
            LoadEventPreloaded(c, md, pr, Null)
    \/ PatchStep({"ok"})

SpecLoad == Init /\ [][LoadNext]_vars

\* ---- saved events: save, delete, offline reload, background refresh; the
\* user starts one thing at a time ----
SavedInfos(k) == InfosOf(k)

SavedKeys == SeasonKeys

SavedNext ==
    \/ \E c \in CallIds, k \in SavedKeys : Settled /\ LoadEvent(c, k, TRUE)
    \/ \E c \in CallIds :
        \E info \in SavedInfos(calls[c].key), teams \in LoadTeams(calls[c].key) :
            LoadEventLoaded(c, info, teams)
    \/ \E c \in CallIds :
        \E md \in OrNull(LoadMatches(calls[c].key)) : LoadEventPreloaded(c, md, Null, Null)
    \/ \E c \in CallIds, i \in OpIds : Settled /\ SaveCurrentEvent(c, i)
    \/ \E c \in CallIds : SaveCurrentEventPut(c, "ok")
    \/ SaveLabelTimeout
    \/ \E c \in CallIds, i \in OpIds, k \in SavedKeys : Settled /\ DeleteSavedEvent(c, i, k)
    \/ \E c \in CallIds : DeleteSavedEventRemoved(c, "ok")
    \/ \E c \in CallIds, i \in OpIds, k \in SavedKeys : Settled /\ LoadSavedEvent(c, i, k)
    \/ \E c \in CallIds : LoadSavedEventDone(c, "ok")
    \/ \E c \in CallIds : LoadSavedEventAwaitRegion(c, "ok")
    \/ \E c \in CallIds :
        \E live \in OrNull(SavedInfos(calls[c].key)) : LoadSavedEventRegion(c, live)
    \/ \E c \in CallIds :
        \E ft \in OrNull(LoadTeams(calls[c].key)), fm \in OrNull(LoadMatches(calls[c].key)) :
            BackgroundRefreshed(c, ft, fm, Null, Null)
    \/ PatchStep({"ok"})

SpecSaved == Init /\ [][SavedNext]_vars

\* ---- a page load that finds a saved event in IndexedDB: the saved event and
\* other events are loaded, at any moment ----
StoredSnapshots(k) ==
    {[EmptyData EXCEPT !["info"] = Some(i), !["teams"] = Some(t), !["matches"] = Some(m)] :
        i \in SavedInfos(k), t \in LoadTeams(k), m \in LoadMatches(k)}

ReloadInit ==
    \E k \in SavedKeys : \E d \in StoredSnapshots(k) :
        /\ storeCreated = TRUE
        /\ db = {[event_key |-> k, data |-> d]}
        /\ ops = [i \in OpIds |-> IdleOp]
        /\ resolved = NoneResolved
        /\ lastPut = [j \in EventKeys |-> IF j = k THEN Some(d) ELSE Null]
        /\ PageInit
        /\ saved = [j \in EventKeys |->
                        IF j = k THEN Some([data |-> d, bd |-> d["matches"]]) ELSE Null]

\* what the backend says of an event loaded meanwhile, and of the region
ReloadInfos(k) == {i \in InfosOf(k) : i.region = "r"}

ReloadNext ==
    \/ \E c \in CallIds, k \in SavedKeys : LoadEvent(c, k, TRUE)
    \/ \E c \in CallIds :
        \E info \in ReloadInfos(calls[c].key), teams \in LoadTeams(calls[c].key) :
            LoadEventLoaded(c, info, teams)
    \/ \E c \in CallIds : LoadEventPreloaded(c, Null, Null, Null)
    \/ \E c \in CallIds, i \in OpIds, k \in SavedKeys : LoadSavedEvent(c, i, k)
    \/ \E c \in CallIds, out \in Outcomes : LoadSavedEventThrown(c, out)
    \/ \E c \in CallIds : LoadSavedEventDone(c, "ok")
    \/ \E c \in CallIds : LoadSavedEventAwaitRegion(c, "ok")
    \/ \E c \in CallIds :
        \E live \in OrNull(ReloadInfos(calls[c].key)) : LoadSavedEventRegion(c, live)
    \/ \E c \in CallIds :
        \E ft \in OrNull(LoadTeams(calls[c].key)) : BackgroundRefreshed(c, ft, Null, Null, Null)
    \/ PatchStep({"ok"})

SpecReload == ReloadInit /\ [][ReloadNext]_vars

\* ---- the breakdown tab ----
BdInfos(k) == {i \in InfosOf(k) : i.region = "r" /\ i.status = "completed"}

BdNext ==
    \/ \E k \in EventKeys : Settled /\ LoadEvent(1, k, TRUE)
    \/ \E c \in CallIds :
        \E info \in BdInfos(calls[c].key), teams \in LoadTeams(calls[c].key) :
            LoadEventLoaded(c, info, teams)
    \/ \E c \in CallIds :
        \E md \in OrNull(MatchesOf(calls[c].key)) : LoadEventPreloaded(c, md, Null, Null)
    \/ \E c \in CallIds, tab \in {"rankings", "breakdown"} : TabClick(tab, c)
    \/ \E c \in CallIds, right \in BOOLEAN : ArrowKey(right, c)
    \/ \E c \in CallIds, idx \in 0..(MatchCount - 1) :
        activeTab = "breakdown" /\ bdData # Null /\ BdGoTo(idx, c)
    \/ \E c \in CallIds :
        \E data \in OrNull(LoadMatches(calls[c].key)) : LoadBreakdownTabAnswered(c, data)
    \/ \E c \in CallIds, available \in BOOLEAN : LoadBdMatchAnswered(c, available)
    \/ \E c \in CallIds : PollBdMatchTick(c)
    \/ \E c \in CallIds, available \in BOOLEAN : PollBdMatchAnswered(c, available)
    \/ PatchStep({"ok"})

SpecBd == Init /\ [][BdNext]_vars

\* ---- the comparison selection ----
CompareNext ==
    \/ \E teamKey \in TeamKeys : ToggleCompareTeam(teamKey)
    \/ ClearCompareSelection
    \/ \E tab \in {"rankings", "events"} : TabClick(tab, 1)

SpecCompare == Init /\ [][CompareNext]_vars

\* ---- the playoff bracket ----
BracketKeys == {k \in EventKeys : k[1] = SeasonYear}

BracketNext ==
    \/ \E k \in BracketKeys : Settled /\ LoadEvent(1, k, TRUE)
    \/ \E c \in CallIds :
        \E info \in BdInfos(calls[c].key), teams \in LoadTeams(calls[c].key) :
            LoadEventLoaded(c, info, teams)
    \/ \E c \in CallIds :
        \E pr \in OrNull(BracketResults) : LoadEventPreloaded(c, Null, pr, Null)
    \/ \E c \in CallIds : Settled /\ TabClick("playoff", c)
    \/ \E c \in CallIds :
        \E data \in OrNull(BracketResults) : LoadPlayoffsAnswered(c, data)
    \/ PatchStep({"ok"})

SpecBracket == Init /\ [][BracketNext]_vars


\* ---- the last event restored when the page is loaded again ----
RestoreNext ==
    \/ \E c \in CallIds, k \in EventKeys : LoadEvent(c, k, TRUE)
    \/ \E c \in CallIds :
        \E info \in LoadInfos(calls[c].key), teams \in LoadTeams(calls[c].key) :
            LoadEventLoaded(c, info, teams)
    \/ \E c \in CallIds : LoadEventFailed(c)
    \/ \E c \in CallIds : LoadEventPreloaded(c, Null, Null, Null)
    \/ ClearActiveEvent
    \/ \E entry \in StoredEntries : StorageChanged(entry)
    \/ \E readyState \in ReadyStates : PageReload(readyState)
    \/ PatchStep({"ok"})

SpecRestore == Init /\ [][RestoreNext]_vars

\* ---- API.get over the responses of the backend ----
ApiRequests == {ApiGet("eventInfo", k) : k \in EventKeys}

ApiNext ==
    \/ \E c \in CallIds, request \in ApiRequests : ApiGetCalled(c, request)
    \/ \E c \in CallIds, resp \in Responses : ApiGetResponded(c, resp)
    \/ \E c \in CallIds : ApiGetUnreachable(c)
    \/ \E c \in CallIds : ApiGetSettled(c)
    \/ \E c \in CallIds : ApiGetTaken(c)

SpecApi == Init /\ [][ApiNext]_vars

\* ---- the rankings auto-refresh: live and saved events loaded one after
\* the other, the active event cleared, the interval firing ----
RankingsNext ==
    \/ \E c \in CallIds, k \in EventKeys : Settled /\ LoadEvent(c, k, TRUE)
    \/ \E c \in CallIds :
        \E info \in LoadInfos(calls[c].key), teams \in LoadTeams(calls[c].key) :
            LoadEventLoaded(c, info, teams)
    \/ \E c \in CallIds : LoadEventFailed(c)
    \/ \E c \in CallIds : LoadEventPreloaded(c, Null, Null, Null)
    \/ \E c \in CallIds, i \in OpIds, k \in SavedKeys : Settled /\ LoadSavedEvent(c, i, k)
    \/ \E c \in CallIds : LoadSavedEventDone(c, "ok")
    \/ \E c \in CallIds : LoadSavedEventAwaitRegion(c, "ok")
    \/ \E c \in CallIds :
        \E live \in OrNull(ReloadInfos(calls[c].key)) : LoadSavedEventRegion(c, live)
    \/ \E c \in CallIds :
        \E ft \in OrNull(LoadTeams(calls[c].key)) : BackgroundRefreshed(c, ft, Null, Null, Null)
    \/ Settled /\ ClearActiveEvent
    \/ \E c \in CallIds : RefreshRankingsTick(c)
    \/ \E c \in CallIds :
        \E teams \in OrNull(TeamsOf(calls[c].key)) : RefreshRankingsAnswered(c, teams)
    \/ PatchStep({"ok"})

SpecRankings == ReloadInit /\ [][RankingsNext]_vars

\* ---- breakdown polling to its end: the user acts only while no poll timer
\* runs (once the waiting state shows, the user stays), the interval keeps
\* firing, requests are answered, and the backend reports the breakdown as
\* available in the end ----
PollKeys == {k \in EventKeys : k[1] >= BreakdownYear}

UserWaits == intervals["poll"] = 0

PollNext ==
    \/ \E k \in PollKeys : Settled /\ UserWaits /\ LoadEvent(1, k, TRUE)
    \/ \E c \in CallIds :
        \E info \in BdInfos(calls[c].key), teams \in LoadTeams(calls[c].key) :
            LoadEventLoaded(c, info, teams)
    \/ \E c \in CallIds :
        \E md \in OrNull(LoadMatches(calls[c].key)) : LoadEventPreloaded(c, md, Null, Null)
    \/ \E c \in CallIds, tab \in {"rankings", "breakdown"} : UserWaits /\ TabClick(tab, c)
    \/ \E c \in CallIds, right \in BOOLEAN : UserWaits /\ ArrowKey(right, c)
    \/ \E c \in CallIds :
        \E data \in OrNull(LoadMatches(calls[c].key)) : LoadBreakdownTabAnswered(c, data)
    \/ \E c \in CallIds, available \in BOOLEAN : LoadBdMatchAnswered(c, available)
    \/ \E c \in CallIds : PollBdMatchTick(c)
    \/ \E c \in CallIds, available \in BOOLEAN : PollBdMatchAnswered(c, available)
    \/ PatchStep({"ok"})

PollFairness ==
    /\ WF_vars(\E c \in CallIds : PollBdMatchTick(c))
    /\ WF_vars(\E c \in CallIds, available \in BOOLEAN : PollBdMatchAnswered(c, available))
    /\ WF_vars(\E c \in CallIds, available \in BOOLEAN : LoadBdMatchAnswered(c, available))
    /\ SF_vars(\E c \in CallIds : PollBdMatchAnswered(c, TRUE))

SpecPoll == Init /\ [][PollNext]_vars /\ PollFairness

\* ---- the match-list refresh of the Breakdown tab ----
BdListNext ==
    \/ \E c \in CallIds, k \in EventKeys : LoadEvent(c, k, TRUE)
    \/ \E c \in CallIds :
        \E info \in BdInfos(calls[c].key), teams \in LoadTeams(calls[c].key) :
            LoadEventLoaded(c, info, teams)
    \/ \E c \in CallIds :
        \E md \in OrNull(LoadMatches(calls[c].key)) : LoadEventPreloaded(c, md, Null, Null)
    \/ \E c \in CallIds, tab \in {"rankings", "breakdown"} : Settled /\ TabClick(tab, c)
    \/ \E c \in CallIds, right \in BOOLEAN : Settled /\ ArrowKey(right, c)
    \/ \E c \in CallIds :
        \E data \in OrNull(LoadMatches(calls[c].key)) : LoadBreakdownTabAnswered(c, data)
    \/ \E c \in CallIds, available \in BOOLEAN : LoadBdMatchAnswered(c, available)
    \/ \E c \in CallIds : RefreshBdListTick(c)
    \/ \E c \in CallIds :
        \E fresh \in OrNull(FreshOf(calls[c].key)) : RefreshBdListAnswered(c, fresh)
    \/ PatchStep({"ok"})

SpecBdList == Init /\ [][BdListNext]_vars

\* ---- the Play-by-Play tab: matches, navigation and the connections panel ----
PbpNext ==
    \/ \E c \in CallIds, k \in EventKeys : LoadEvent(c, k, TRUE)
    \/ \E c \in CallIds :
        \E info \in BdInfos(calls[c].key), teams \in LoadTeams(calls[c].key) :
            LoadEventLoaded(c, info, teams)
    \/ \E c \in CallIds :
        \E md \in OrNull(LoadMatches(calls[c].key)) : LoadEventPreloaded(c, md, Null, Null)
    \/ \E c \in CallIds, tab \in {"rankings", "playbyplay"} : Settled /\ TabClick(tab, c)
    \/ \E c \in CallIds :
        \E data \in OrNull(LoadMatches(calls[c].key)) : LoadPlayByPlayAnswered(c, data)
    \/ \E c \in CallIds, right \in BOOLEAN : PbpStep(right, c)
    \/ \E c \in CallIds, right \in BOOLEAN, tag \in FocusTags : KeyDown(right, tag, c)
    \/ \E c \in CallIds : RenderPbpConnectionsAnswered(c)
    \/ PatchStep({"ok"})

SpecPbp == Init /\ [][PbpNext]_vars

\* ---- overlapping event loads whose requests all succeed ----
OverlapNext ==
    \/ \E c \in CallIds, k \in EventKeys : LoadEvent(c, k, TRUE)
    \/ \E c \in CallIds, k \in SeasonKeys : LoadEvent(c, k, FALSE)
    \/ \E c \in CallIds :
        \E info \in LoadInfos(calls[c].key), teams \in LoadTeams(calls[c].key) :
            LoadEventLoaded(c, info, teams)
    \/ \E c \in CallIds :
        \E md \in OrNull(LoadMatches(calls[c].key)), pr \in OrNull(PlayoffsOf(calls[c].key)) :
            LoadEventPreloaded(c, md, pr, Null)
    \/ PatchStep({"ok"})

SpecOverlap == Init /\ [][OverlapNext]_vars

\* ---- the lazily loaded Summary and Alliance tabs, with one event saved; a
\* tab is clicked while nothing is in flight, an event is loaded while no
\* other load is in flight ----
NoLoadInFlight == \A c \in CallIds : calls[c].fn # "loadEvent"

TabsNext ==
    \/ \E c \in CallIds, k \in EventKeys : NoLoadInFlight /\ LoadEvent(c, k, TRUE)
    \/ \E c \in CallIds :
        \E info \in BdInfos(calls[c].key), teams \in LoadTeams(calls[c].key) :
            LoadEventLoaded(c, info, teams)
    \/ \E c \in CallIds : LoadEventPreloaded(c, Null, Null, Null)
    \/ \E c \in CallIds, tab \in {"summary", "alliance"} : Settled /\ TabClick(tab, c)
    \/ \E c \in CallIds :
        \E data \in OrNull(SummariesOf(calls[c].key)) : LoadSummaryAnswered(c, data)
    \/ \E c \in CallIds :
        \E data \in OrNull(AlliancesOf(calls[c].key)) : LoadAlliancesAnswered(c, data)
    \/ PatchStep({"ok"})

SpecTabs == ReloadInit /\ [][TabsNext]_vars

\* ---- patchTab calls on saved events: an event is saved once, with no call
\* in flight, and then patched by calls that do not wait for one another ----
PatchNext ==
    /\ \/ \E i \in OpIds, k \in EventKeys, d \in CacheSnapshots :
            StoreGet(db, k) = Null /\ (\A j \in OpIds : ops[j].pc = "idle") /\ CallPut(i, k, d)
       \/ \E i \in OpIds : TxPut(i, "ok")
       \/ \E i \in OpIds, k \in EventKeys, t \in PatchTabs : CallPatchTab(i, k, t, PatchVal(t))
       \/ \E i \in OpIds : TxPatchGet(i, "ok")
       \/ \E i \in OpIds : TxPatchPut(i, "ok")
    /\ UNCHANGED appVars

SpecPatch == Init /\ [][PatchNext]_vars

\* ---- saving with an IndexedDB that may fail ----
SaveNext ==
    \/ \E c \in CallIds, k \in SavedKeys : Settled /\ LoadEvent(c, k, TRUE)
    \/ \E c \in CallIds :
        \E info \in SavedInfos(calls[c].key), teams \in LoadTeams(calls[c].key) :
            LoadEventLoaded(c, info, teams)
    \/ \E c \in CallIds :
        \E md \in OrNull(LoadMatches(calls[c].key)) : LoadEventPreloaded(c, md, Null, Null)
    \/ \E c \in CallIds, i \in OpIds : Settled /\ SaveCurrentEvent(c, i)
    \/ \E c \in CallIds, out \in Outcomes : SaveCurrentEventPut(c, out)
    \/ SaveLabelTimeout
    \/ PatchStep({"ok"})

SpecSave == Init /\ [][SaveNext]_vars

\* ---- the three intervals together: an ongoing event of the current season,
\* the Breakdown tab, navigation, and every interval firing (an interval
\* fires while no call is suspended; the user acts at any moment) ----
TimerInfos(k) == {i \in InfosOf(k) : i.region = "r" /\ i.status = "ongoing"}

TimersNext ==
    \/ \E c \in CallIds : LoadEvent(c, <<SeasonYear, "bb">>, TRUE)
    \/ \E c \in CallIds :
        \E info \in TimerInfos(calls[c].key), teams \in LoadTeams(calls[c].key) :
            LoadEventLoaded(c, info, teams)
    \/ \E c \in CallIds :
        \E md \in OrNull(LoadMatches(calls[c].key)) : LoadEventPreloaded(c, md, Null, Null)
    \/ \E c \in CallIds, tab \in {"rankings", "breakdown"} : TabClick(tab, c)
    \/ \E c \in CallIds, right \in BOOLEAN : ArrowKey(right, c)
    \/ \E c \in CallIds :
        \E data \in OrNull(LoadMatches(calls[c].key)) : LoadBreakdownTabAnswered(c, data)
    \/ \E c \in CallIds, available \in BOOLEAN : LoadBdMatchAnswered(c, available)
    \/ \E c \in CallIds : Settled /\ PollBdMatchTick(c)
    \/ \E c \in CallIds : PollBdMatchAnswered(c, FALSE)
    \/ \E c \in CallIds : Settled /\ RefreshBdListTick(c)
    \/ \E c \in CallIds : RefreshBdListAnswered(c, Null)
    \/ \E c \in CallIds : Settled /\ RefreshRankingsTick(c)
    \/ \E c \in CallIds : RefreshRankingsAnswered(c, Null)
    \/ Settled /\ ClearActiveEvent
    \/ PatchStep({"ok"})

SpecTimers == Init /\ [][TimersNext]_vars

\* ---- match navigation on the Play-by-Play and Breakdown tabs of one loaded
\* event whose breakdowns are not posted yet: the buttons, and arrow keys with
\* the focus anywhere ----
NavNext ==
    \/ \E c \in CallIds : Settled /\ LoadEvent(c, <<SeasonYear, "bb">>, TRUE)
    \/ \E c \in CallIds :
        \E info \in BdInfos(calls[c].key), teams \in LoadTeams(calls[c].key) :
            LoadEventLoaded(c, info, teams)
    \/ \E c \in CallIds :
        \E md \in OrNull(LoadMatches(calls[c].key)) : LoadEventPreloaded(c, md, Null, Null)
    \/ \E c \in CallIds, tab \in {"rankings", "playbyplay", "breakdown"} :
        Settled /\ TabClick(tab, c)
    \/ \E c \in CallIds :
        \E data \in OrNull(LoadMatches(calls[c].key)) : LoadPlayByPlayAnswered(c, data)
    \/ \E c \in CallIds :
        \E data \in OrNull(LoadMatches(calls[c].key)) : LoadBreakdownTabAnswered(c, data)
    \/ \E c \in CallIds, right \in BOOLEAN :
        activeTab = "playbyplay" /\ pbpData # Null /\ PbpStep(right, c)
    \/ \E c \in CallIds, right \in BOOLEAN :
        activeTab = "breakdown" /\ bdData # Null /\ BdStep(right, c)
    \/ \E c \in CallIds, right \in BOOLEAN, tag \in FocusTags : KeyDown(right, tag, c)
    \/ \E c \in CallIds : RenderPbpConnectionsAnswered(c)
    \/ \E c \in CallIds : LoadBdMatchAnswered(c, FALSE)
    \/ PatchStep({"ok"})

SpecNav == Init /\ [][NavNext]_vars
(***************************************************************************)
(* Properties of the cache                                                 *)
(***************************************************************************)
\* slot i takes its step (a call in its only or last transaction settles)
Settles(i, op, pc) ==
    /\ ops[i].op = op /\ ops[i].pc = pc
    /\ ops'[i].pc = "idle"

RecordOf(k, d) == [event_key |-> k, data |-> d]

OneRecordPerKey ==
    \A r1 \in db, r2 \in db : r1.event_key = r2.event_key => r1 = r2

\* a get whose round trip did not fail, on a key whose last committed write
\* was a put of d, resolves to the record <k, d>
GetReturnsLastPut ==
    \A i \in OpIds :
        (Settles(i, "get", "tx") /\ ~resolved'.failed /\ lastPut[ops[i].key] # Null)
        => resolved'.result = RecResult(Some(RecordOf(ops[i].key, lastPut[ops[i].key][1])))

\* C1: after put(k, d) has resolved true, and with no later write touching k,
\* get(k) resolves to the record with event_key k and data d; a later put
\* replaces the record, so the store never holds two records under one key.
C1_PutGet == [](OneRecordPerKey) /\ [][GetReturnsLastPut]_vars

\* a get has just resolved to the record last put under its key, while both
\* keys are stored
C1_Witness ==
    /\ resolved.op = "get" /\ ~resolved.failed
    /\ resolved.result.rec # Null
    /\ lastPut[resolved.result.rec[1].event_key] = Some(resolved.result.rec[1].data)
    /\ Cardinality(db) = Cardinality(EventKeys)

\* the write of a patchTab(k, tab, v) that ran from its read to its write
\* with no other write to k in between: the record of k differs from the
\* stored one in data[tab] = v only, and no other record changes
PatchFrame ==
    \A i \in OpIds :
        (Settles(i, "patchTab", "tx2") /\ ~resolved'.failed /\ ~ops[i].dirty)
        => LET k   == ops[i].key
               old == StoreGet(db, k)
           IN  /\ old # Null
               /\ resolved'.result = BoolResult(TRUE)
               /\ db' = (db \ {old[1]})
                          \cup {RecordOf(k, [old[1].data EXCEPT ![ops[i].tab] = ops[i].val])}

\* a patchTab that finds a record under its key goes on to write it: it
\* resolves false at the read only when the round trip failed
PatchProceeds ==
    \A i \in OpIds :
        (Settles(i, "patchTab", "tx") /\ StoreGet(db, ops[i].key) # Null)
        => resolved'.failed

\* C2: patchTab(k, tab, v) on a key with a stored record (the round trips
\* succeeding, and no other write to k between its read and its write) sets
\* data[tab] to v and resolves true; the other fields of the record and the
\* records of other keys are unchanged.
C2_PatchFrame == [][PatchFrame /\ PatchProceeds]_vars

\* a patchTab has resolved true and left a record that mixes the patched
\* field with a field of the snapshot put before, next to another record
C2_Witness ==
    /\ resolved.op = "patchTab" /\ resolved.result = BoolResult(TRUE)
    /\ Cardinality(db) = Cardinality(EventKeys)
    /\ \E r \in db : r.data \notin CacheSnapshots

(***************************************************************************)
(* Properties of loading, saving and reloading events                      *)
(***************************************************************************)
\* C3: once loadEvent has fetched info and teams and the patchTab calls it
\* started have settled, the store holds an entry for the event whose
\* data.info and data.teams are the fetched values
C3_AutoCacheHoldsEntry ==
    (/\ currentEvent # Null /\ eventInfoData # Null /\ teamsData # Null
     /\ \A i \in OpIds : ops[i].pc = "idle")
    => \E r \in db : /\ r.event_key = currentEvent
                     /\ r.data["info"] = eventInfoData
                     /\ r.data["teams"] = teamsData

\* the step on which loadSavedEvent of call c runs to its end without a throw
LoadSavedEnds(c) ==
    /\ calls[c].fn = "loadSavedEvent"
    /\ calls'[c].fn # "loadSavedEvent"
    /\ effects'.alert = ""

\* snapshot.data as that call read it from the store
SnapshotRead(c) ==
    IF calls[c].pc = "get" THEN StoreGet(db, calls[c].key)[1].data ELSE calls[c].snap

\* the call reloads what saveCurrentEvent last stored, with no other handler
\* run since it was called
ReloadsSaved(c) ==
    /\ LoadSavedEnds(c)
    /\ calls[c].alone
    /\ saved[calls[c].key] # Null
    /\ SnapshotRead(c) = saved[calls[c].key][1].data

\* the tab data of a saved snapshot d is back in the globals
TabDataRestored(c, d) ==
    /\ currentEvent' = calls[c].key
    /\ teamsData' = d["teams"]
    /\ pbpData' = d["matches"]
    /\ playoffData' = IF d["playoffs"] = Null THEN Null ELSE Some(d["playoffs"][1].matches)
    /\ allianceData' = d["alliances"]
    /\ summaryData' = d["summary"]

C5_OfflineReload ==
    [][\A c \in CallIds :
        LoadSavedEnds(c) =>
            LET info == SnapshotRead(c)["info"][1] IN
            /\ currentEvent' = calls[c].key
            /\ (calls'[c].fn = "backgroundRefreshEvent") <=> (info.status = "ongoing")
            /\ (info.status # "ongoing" /\ info.region # "" /\ calls[c].pc = "get")
                    => effects'.sent = {}]_vars

\* a step of saveCurrentEvent or deleteSavedEvent
SaveOrDeleteStep ==
    \E c \in CallIds :
        /\ {calls[c].fn, calls'[c].fn} \cap {"saveCurrentEvent", "deleteSavedEvent"} # {}
        /\ calls'[c] # calls[c]
        /\ calls'[c].fn # calls[c].fn

C7_FailureRestores ==
    [][\A c \in CallIds :
        (/\ calls[c].fn = "loadEvent" /\ calls[c].pc = "phase1"
         /\ calls'[c].pc = "idle"
         /\ \A d \in CallIds \ {c} : ~(calls[d].fn = "loadEvent" /\ calls[d].pc = "phase1"))
        => /\ effects'.alert = "Error loading event"
           /\ calls[c].manual =>
                (~loadBtn'.disabled /\ ~loadBtn'.loading /\ loadBtn'.text = "Load Event")
           /\ ~seasonBusy' /\ ~dotLoading'
           /\ UNCHANGED eventVars]_vars

\* C8: while an event of a year before 2025 is the current event, no user
\* action sends a match-breakdown request or starts the poll timer or the
\* match-list refresh timer
C8_NoBreakdownBefore2025 ==
    [][(currentEvent # Null /\ Pre2025 /\ effects'.by = "user")
        => /\ \A r \in effects'.sent : r.api # "matchBreakdown"
           /\ intervals'["poll"] <= intervals["poll"]
           /\ intervals'["list"] <= intervals["list"]]_vars

\* C9: the selection never exceeds the limit; a toggle of an unselected team
\* at the limit changes nothing; a toggle of a selected team removes it
C9_CompareLimit ==
    [][/\ Cardinality(compareSelection') <= CompareLimit
       /\ \A t \in TeamKeys :
            ToggleCompareTeam(t) =>
                /\ (t \notin compareSelection /\ Cardinality(compareSelection) = CompareLimit)
                        => compareSelection' = compareSelection
                /\ t \in compareSelection => compareSelection' = compareSelection \ {t}]_vars

\* the selection is full after a toggle
C9_Witness == Cardinality(compareSelection) = CompareLimit /\ effects.by = "user"

\* the matches of `list` that belong to slot s
SuppliedFor(list, s) ==
    SelectSeq(list, LAMBDA m : IF s = FinalSlot THEN m.bracket = "final"
                               ELSE m.bracket # "final" /\ m.set_number = s)

\* C10: a drawn bracket shows in each slot what the supplied matches of that
\* set alone give, and TBD for a set with no supplied match
C10_NoProgression ==
    [][(bracketView' # bracketView /\ bracketView'.kind = "tree")
        => /\ playoffData' # Null
           /\ \A s \in SlotIds :
                /\ bracketView'.slots[s] = Slot(Entry(SuppliedFor(playoffData'[1], s), s))
                /\ SuppliedFor(playoffData'[1], s) = <<>> => bracketView'.slots[s] = TbdSlot]_vars

\* sets 1 and 2 are decided, no match of set 7 was supplied: slot 7 is TBD
C10_Witness ==
    /\ bracketView.kind = "tree"
    /\ bracketView.slots[1].decided /\ bracketView.slots[2].decided
    /\ bracketView.slots[7].tbd

(***************************************************************************)
(* Restore, API.get, patchTab on a missing record                         *)
(***************************************************************************)
\* the stored entry names a year and an event code
CompleteEntry(entry) ==
    /\ entry # Null
    /\ entry[1] # CorruptEntry
    /\ entry[1].year # 0 /\ entry[1].eventCode # ""

\* phase 1 of a loadEvent call succeeds in this step
LoadSucceeds(c) ==
    /\ calls[c].fn = "loadEvent" /\ calls[c].pc = "phase1"
    /\ calls'[c].pc = "phase2"

\* C11: a successful loadEvent stores its year and event code and
\* clearActiveEvent removes the entry; a page reload starts loadEvent for
\* exactly the stored year and code (the two phase-1 requests for that key
\* are sent), and loads nothing when the entry is missing, corrupt or lacks
\* a year or a code.
C11_RestoreLastEvent ==
    [][/\ \A c \in CallIds :
            LoadSucceeds(c) =>
                selectedEvent' = Some([year |-> YearOf(calls[c].key),
                                       eventCode |-> EventCodeOf(calls[c].key)])
       /\ (currentEvent # Null /\ currentEvent' = Null /\ effects'.by # "reload")
            => selectedEvent' = Null
       /\ effects'.by = "reload" =>
            IF CompleteEntry(selectedEvent)
            THEN LET k == <<selectedEvent[1].year, selectedEvent[1].eventCode>> IN
                 /\ effects'.sent = {ApiGet("eventInfo", k), ApiGet("eventTeams", k)}
                 /\ \E c \in CallIds : calls'[c].fn = "loadEvent" /\ calls'[c].key = k
                 /\ \A c \in CallIds : calls'[c].fn \in {"none", "loadEvent"}
            ELSE /\ effects'.sent = {}
                 /\ \A c \in CallIds : calls'[c].fn = "none"]_vars

\* API.get has settled for a response
GetSettled(c) ==
    /\ calls[c].fn = "API.get" /\ calls[c].pc = "settled"
    /\ calls[c].resp # NoResponse

\* the body is JSON carrying a non-empty detail
HasDetail(body) ==
    /\ body.kind = "object"
    /\ body.detail.type # "undefined"
    /\ ~(body.detail.type = "string" /\ body.detail.str = "")

\* C12: API.get resolves to the parsed JSON body of an OK response; for a
\* response that is not OK it rejects with an Error whose message is the
\* body's detail when the body is JSON with a non-empty detail, and
\* 'HTTP <status>' otherwise, a body that is not JSON included.
C12_GetOutcome ==
    \A c \in CallIds :
        GetSettled(c) =>
            LET resp == calls[c].resp
                outcome == calls[c].outcome IN
            IF Ok(resp.status)
            THEN resp.body.kind # "text" => outcome = GetResolved(resp.body)
            ELSE /\ outcome.settled = "rejected"
                 /\ outcome.error = "Error"
                 /\ IF HasDetail(resp.body)
                    THEN resp.body.detail.type = "string"
                         /\ outcome.message = resp.body.detail.str
                    ELSE outcome.message = HttpText(resp.status)

\* the read of a patchTab call on a key without a stored record: the call
\* ends there with false and the store is as before, so a get of the key
\* gives null and a list gives the same keys
PatchMissing ==
    \A i \in OpIds :
        (ops[i].op = "patchTab" /\ ops[i].pc = "tx" /\ ops'[i] # ops[i]
         /\ StoreGet(db, ops[i].key) = Null)
        => /\ ops'[i].pc = "idle"
           /\ resolved'.op = "patchTab"
           /\ resolved'.result = BoolResult(FALSE)
           /\ db' = db
           /\ (GetValue(ops[i].key, "ok"))' = RecResult(Null)
           /\ (ListValue("ok"))' = ListValue("ok")

\* a patchTab call writes only after it has read a record under its key
PatchWritesRead ==
    \A i \in OpIds :
        (ops[i].op = "patchTab" /\ ops[i].pc = "tx" /\ ops'[i].pc = "tx2")
        => StoreGet(db, ops[i].key) # Null

\* C13: patchTab(k, tab, v) on a key with no stored record resolves false
\* and stores nothing: no record is created, get(k) still gives null and
\* list() gives the same keys.
C13_PatchMissing == [][PatchMissing /\ PatchWritesRead]_vars

\* a patchTab whose round trip worked has resolved false while the store
\* holds a record of another key only
C13_Witness ==
    /\ resolved.op = "patchTab" /\ ~resolved.failed
    /\ resolved.result = BoolResult(FALSE)
    /\ Cardinality(db) = 1
    /\ \E k \in EventKeys : StoreGet(db, k) = Null /\ lastPut[k] = Null

\* C14: the results of a preload or background refresh requested for one
\* event are never left in pbpData, bdData or allianceData while another
\* event is the current one: each is null or was fetched for currentEvent
\* (playoffData carries no event key in the model and is not compared).
C14_NoStaleData ==
    /\ pbpData # Null => pbpData[1].ev = currentEvent
    /\ bdData # Null => bdData[1].ev = currentEvent
    /\ allianceData # Null => allianceData[1].ev = currentEvent

\* C15: the rankings auto-refresh runs only for ongoing events: while the
\* rankings timer is active, currentEvent is set and currentEventStatus is
\* 'ongoing'; loading an event that is not ongoing, or clearing the active
\* event, leaves no rankings timer running.
C15_RankingsOnlyOngoing ==
    (rankingsRefreshTimer \/ intervals["rankings"] > 0)
    => (currentEvent # Null /\ currentEventStatus = Some("ongoing"))

\* C16: while the active tab is not 'breakdown', neither the breakdown poll
\* timer nor the match-list refresh timer is active, also when a loadBdMatch
\* or loadBreakdownTab request started on the Breakdown tab completes after
\* the user has switched to another tab.
C16_NoPollingOffTab ==
    activeTab # "breakdown"
    => /\ ~bdPollTimer /\ intervals["poll"] = 0
       /\ ~bdListTimer /\ intervals["list"] = 0

\* the waiting state of match n: the Breakdown tab shows it, its flag is not
\* set and the poll timer runs
Waiting(n) ==
    /\ activeTab = "breakdown" /\ bdData # Null /\ bdIndex = n
    /\ ~bdData[1].has_breakdown[n + 1]
    /\ bdPollTimer

\* the breakdown of match n has arrived: its flag is set and no poll timer
\* runs
Arrived(n) ==
    /\ bdData # Null /\ bdData[1].has_breakdown[n + 1]
    /\ ~bdPollTimer /\ intervals["poll"] = 0

PlacesOf(e) == {<<t, i>> \in SlotIds \X {1, 2} : SET_DESCRIPTIONS[t][i] = e}

UpperSets == {1, 2, 3, 4, 7, 8, 11}

LowerSets == {5, 6, 9, 10, 12, 13}

\* the numbers of sets an entrant may have lost before it enters
RECURSIVE LossesOf(_)
LossesOf(e) ==
    LET before == UNION {LossesOf(SET_DESCRIPTIONS[e.n][i]) : i \in {1, 2}} IN
    CASE e.kind = "seed" -> {0}
      [] e.kind = "W" -> before
      [] e.kind = "L" -> {l + 1 : l \in before}

\* the set in which the winners of the two sets of `pair` meet
MeetIn(pair) == {t \in SlotIds : SET_DESCRIPTIONS[t] = <<W(pair[1]), W(pair[2])>>}

\* C18: the set tables every drawn bracket is labelled with describe an
\* 8-alliance double elimination: sets 1..4
\* seat the eight seeds, every later set and the final take their entrants
\* from lower-numbered sets, every winner of sets 1..13 advances to exactly
\* one later set, every loser of an upper-bracket set drops to exactly one
\* lower-bracket set, the loser of a lower-bracket set appears nowhere and
\* has then lost exactly twice, and the pair constants agree with
\* SET_DESCRIPTIONS.
C18_ValidBracket ==
    bracketView.kind = "tree" =>
    /\ {SET_DESCRIPTIONS[s][i] : s \in 1..4, i \in {1, 2}} = {Seed(n) : n \in 1..8}
    /\ \A s \in 5..FinalSlot, i \in {1, 2} :
            LET e == SET_DESCRIPTIONS[s][i] IN e.kind \in {"W", "L"} /\ e.n < s
    /\ \A s \in 1..SetCount :
            /\ Cardinality(PlacesOf(W(s))) = 1
            /\ \A p \in PlacesOf(W(s)) : p[1] > s
    /\ \A s \in UpperSets :
            /\ Cardinality(PlacesOf(L(s))) = 1
            /\ \A p \in PlacesOf(L(s)) : p[1] \in LowerSets /\ p[1] > s
    /\ \A s \in LowerSets :
            /\ PlacesOf(L(s)) = {}
            /\ LossesOf(L(s)) = {2}
    /\ UpperSets \cup LowerSets = 1..SetCount
    /\ MeetIn(UPPER_R1_PAIRS[1]) = {7} /\ MeetIn(UPPER_R1_PAIRS[2]) = {8}
    /\ MeetIn(UPPER_R2_PAIR) = {11}
    /\ MeetIn(LOWER_R3_PAIR) = {12}
    /\ SET_DESCRIPTIONS[LOWER_R5_SET] = <<W(12), L(11)>>
    /\ \A i \in {1, 2} : SET_DESCRIPTIONS[LOWER_R2_SETS[i]] = <<L(2 * i - 1), L(2 * i)>>
    /\ \A i \in {1, 2} : LOWER_R3_SETS[i] = LOWER_R3_PAIR[i]

\* a bracket is drawn in which set 7, described as W1 vs W2, shows a match
\* while the final, described as W11 vs W13, is still to be decided
C18_Witness ==
    /\ bracketView.kind = "tree"
    /\ ~bracketView.slots[7].tbd
    /\ bracketView.slots[FinalSlot].tbd
    /\ SET_DESCRIPTIONS[7] = <<W(1), W(2)>>
    /\ SET_DESCRIPTIONS[FinalSlot] = <<W(11), W(13)>>

\* what the answer `fresh` of a refreshBdList call may change
MergeOnly(c, fresh) ==
    RefreshBdListAnswered(c, fresh) =>
        /\ bdIndex' = bdIndex
        /\ (bdData' = Null) = (bdData = Null)
        /\ bdData # Null =>
            LET old == bdData[1].has_breakdown
                new == bdData'[1].has_breakdown
            IN  /\ bdData'[1].ev = bdData[1].ev
                /\ Len(new) = Len(old)
                /\ \A n \in 1..Len(old) :
                    /\ old[n] => new[n]
                    /\ (new[n] /\ ~old[n]) =>
                        /\ fresh # Null
                        /\ KeyMap(fresh[1], MatchKey(bdData[1], n)) = Some(TRUE)

\* C19: refreshBdList only merges has_breakdown flags: no flag goes from
\* true to false, a flag becomes true only for a match whose key the fresh
\* list reports with has_breakdown true, and the matches of bdData and
\* bdIndex stay as they are.
C19_MergeOnly ==
    [][\A c \in CallIds :
        (calls[c].fn = "refreshBdList" /\ calls'[c].fn = "none") =>
            \A fresh \in OrNull(FreshOf(calls[c].key)) : MergeOnly(c, fresh)]_vars

\* a refresh has answered and the list shown has a flagged match and a match
\* without its flag, the second match selected
C19_Witness ==
    /\ effects.by = "refresh"
    /\ bdData # Null /\ bdIndex = 1
    /\ \E n \in 1..MatchCount : bdData[1].has_breakdown[n]
    /\ \E n \in 1..MatchCount : ~bdData[1].has_breakdown[n]

\* the lists that hold the matches of `list` in another order
Reordered(list) ==
    {[i \in 1..Len(list) |-> list[p[i]]] :
        p \in {q \in [1..Len(list) -> 1..Len(list)] :
                 \A i, j \in 1..Len(list) : q[i] = q[j] => i = j}}

\* no two matches of the list carry the same match_number
DistinctNumbers(list) ==
    \A i, j \in 1..Len(list) : list[i].match_number = list[j].match_number => i = j

\* C20: a drawn bracket shows in the slot of each set, and in the Final slot,
\* a supplied match of that slot with the greatest match_number; with one
\* match per match_number in the slot, every order of the list gives the
\* same slot.
C20_LatestReplay ==
    [][(bracketView' # bracketView /\ bracketView'.kind = "tree")
        => \A s \in SlotIds :
            LET supplied == SuppliedFor(playoffData'[1], s)
                shown    == Entry(playoffData'[1], s)
            IN  supplied # <<>> =>
                /\ shown # Null
                /\ \E i \in 1..Len(supplied) : supplied[i] = shown[1]
                /\ \A i \in 1..Len(supplied) :
                        supplied[i].match_number <= shown[1].match_number
                /\ bracketView'.slots[s] = Slot(shown)
                /\ DistinctNumbers(supplied) =>
                        \A other \in Reordered(playoffData'[1]) :
                            Slot(Entry(other, s)) = bracketView'.slots[s]]_vars

\* the bracket drawn from a list that names the replay of a set before its
\* first match shows the replay
C20_Witness ==
    /\ bracketView.kind = "tree"
    /\ playoffData # Null /\ Len(playoffData[1]) = 2
    /\ LET first  == playoffData[1][1]
           second == playoffData[1][2]
       IN  /\ first.bracket # "final" /\ second.bracket # "final"
           /\ first.set_number = second.set_number
           /\ first.match_number > second.match_number
           /\ bracketView.slots[first.set_number].replay = first.match_number

(***************************************************************************)
(* Claims C21..C30                                                         *)
(***************************************************************************)
\* the match a suspended renderPbpConnections call holds is the one on screen
OnScreen(c) == pbpData # Null /\ calls[c].own /\ calls[c].m = pbpIndex

\* C21: a connections request that completes when its match is no longer the
\* match at pbpIndex of the current pbpData (the user navigated to another
\* match or loaded another event) leaves the connections panel as it was
C21_ConnectionsOfShownMatch ==
    [][\A c \in CallIds :
          (/\ calls[c].fn = "renderPbpConnections"
           /\ calls'[c].fn = "none"
           /\ ~OnScreen(c))
          => pbpConnections' = pbpConnections]_vars

\* C22: once every response of the event loads started has arrived, the
\* active event (currentEvent, the banner's event info, the persisted
\* selectedEvent) is the one whose loadEvent call was started last
C22_LastRequestWins ==
    (Settled /\ lastLoad # Null) =>
        /\ currentEvent = lastLoad[1]
        /\ eventInfoData # Null /\ eventInfoData[1].key = lastLoad[1]
        /\ selectedEvent = Some([year |-> YearOf(lastLoad[1]),
                                 eventCode |-> EventCodeOf(lastLoad[1])])

\* C23: the summary and the alliance data held for the current event, and
\* the summary and alliances of every cache entry, are those of that event:
\* a response to loadSummary or loadAlliances started for another event is
\* stored in neither
C23_NoWrongEvent ==
    /\ (currentEvent # Null /\ summaryData # Null) => summaryData[1].ev = currentEvent
    /\ (currentEvent # Null /\ allianceData # Null) => allianceData[1].ev = currentEvent
    /\ \A r \in db :
        /\ r.data["summary"] # Null => r.data["summary"][1].ev = r.event_key
        /\ r.data["alliances"] # Null => r.data["alliances"][1].ev = r.event_key

\* C24: once every response has arrived, the breakdown rendered in
\* #bd-content, if any, is that of the match at bdIndex of bdData
C24_BreakdownOfSelectedMatch ==
    (Settled /\ bdContent # Null) =>
        /\ bdData # Null
        /\ bdContent[1] = <<bdData[1].ev, bdIndex>>

\* C25: the write of a patchTab call changes its own field only: every other
\* field of the record stored at that moment, in particular one patched by a
\* call that completed since this call read the record, is kept
C25_NoLostUpdate ==
    [][\A i \in OpIds :
          (/\ ops[i].op = "patchTab" /\ ops[i].pc = "tx2" /\ ops'[i].pc = "idle"
           /\ resolved'.result = BoolResult(TRUE)
           /\ StoreGet(db, ops[i].key) # Null)
          => \A t \in Tabs \ {ops[i].tab} :
                StoreGet(db', ops[i].key)[1].data[t] = StoreGet(db, ops[i].key)[1].data[t]]_vars

\* C26: a patchTab call whose write lands when no record is stored under its
\* key (the record it read was removed or cleared meanwhile) does not create
\* one: the key stays without a record until a put
C26_RemovedStaysRemoved ==
    [][\A i \in OpIds :
          (/\ ops[i].op = "patchTab" /\ ops[i].pc = "tx2" /\ ops'[i].pc = "idle"
           /\ StoreGet(db, ops[i].key) = Null)
          => StoreGet(db', ops[i].key) = Null]_vars

\* C27: when saveCurrentEvent ends, the label is 'Saved' only if the cache
\* then holds the snapshot under the key it was saved for, and it is 'Error!'
\* whenever the write did not happen
C27_SavedOnlyIfStored ==
    [][\A c \in CallIds :
          (calls[c].fn = "saveCurrentEvent" /\ calls'[c].fn = "none") =>
              /\ saveLabel' = "Saved" =>
                    StoreGet(db', calls[c].key) =
                        Some(RecordOf(calls[c].key, ops[calls[c].m].data))
              /\ resolved'.failed => saveLabel' = "Error!"]_vars

\* what an EventCache call resolves with when storage fails
FailureValue(op) ==
    CASE op = "get"  -> RecResult(Null)
      [] op = "list" -> ListResult({})
      [] OTHER       -> BoolResult(FALSE)

\* C28: an EventCache call whose storage round trip fails resolves (it does
\* not reject): get with null, list with [], put, patchTab, remove and clear
\* with false; and the stored records are unchanged
C28_NeverRejects ==
    [][\A i \in OpIds :
          (ops[i].pc # "idle" /\ ops'[i].pc = "idle" /\ resolved'.failed) =>
              /\ resolved'.result = FailureValue(ops[i].op)
              /\ db' = db]_vars

\* C29: of each kind (rankings refresh, breakdown poll, match-list refresh)
\* at most one interval is active, and it is the one its variable records
C29_OneIntervalPerKind ==
    /\ intervals["rankings"] = (IF rankingsRefreshTimer THEN 1 ELSE 0)
    /\ intervals["poll"] = (IF bdPollTimer THEN 1 ELSE 0)
    /\ intervals["list"] = (IF bdListTimer THEN 1 ELSE 0)

\* the three intervals run, the poll interval started again by a request
\* that was answered 'not available'
C29_Witness ==
    /\ \A t \in Timers : intervals[t] = 1
    /\ effects.by = "response"
    /\ bdContent = Null /\ bdIndex > 0

\* the index is one of the list
InRange(idx, list) == list # Null => idx \in 0..(MatchesLength(list[1]) - 1)

\* Prev at index 0, Next at the last index
AtEdge(idx, list, right) ==
    IF right THEN list # Null /\ idx = MatchesLength(list[1]) - 1 ELSE idx = 0

\* what match navigation can change: the indices, the panels, the poll timer
NavState == <<pbpIndex, bdIndex, pbpConnections, bdContent, bdPollTimer, intervals>>

\* C30: navigation keeps pbpIndex and bdIndex within the loaded list; Prev at
\* index 0 and Next at the last index change nothing and send nothing; an
\* arrow key pressed with the focus in an input, select or textarea changes
\* nothing
C30_NavigationInRange ==
    [][/\ InRange(pbpIndex', pbpData') /\ InRange(bdIndex', bdData')
       /\ \A c \in CallIds, right \in BOOLEAN :
            /\ (PbpStep(right, c) /\ AtEdge(pbpIndex, pbpData, right))
                  => (UNCHANGED NavState /\ effects'.sent = {})
            /\ (BdStep(right, c) /\ AtEdge(bdIndex, bdData, right))
                  => (UNCHANGED NavState /\ effects'.sent = {})
            /\ \A tag \in {"INPUT", "SELECT", "TEXTAREA"} :
                  KeyDown(right, tag, c) => (UNCHANGED NavState /\ effects'.sent = {})]_vars

\* the last match of the Play-by-Play tab is shown with its connections and
\* the Breakdown tab is on its last match
C30_Witness ==
    /\ pbpData # Null /\ pbpIndex = MatchesLength(pbpData[1]) - 1 /\ pbpIndex > 0
    /\ pbpConnections = Some(<<pbpData[1].ev, pbpIndex>>)
    /\ bdData # Null /\ bdIndex = MatchesLength(bdData[1]) - 1 /\ bdIndex > 0

====
